---- MODULE Spec2Model ----
(***************************************************************************)
(* The text-analysis pipeline of market-trend-analyzer:                    *)
(* analyze_collected_results (src/agents/analysis.py) and generate_summary *)
(* (src/agents/summarization.py).  A caller prepares an argument value and *)
(* calls a function; the function's locals and its return value are the    *)
(* state the properties below are stated over.                             *)
(***************************************************************************)
EXTENDS Integers, Sequences, FiniteSets, TLC

VARIABLES inputs, pc, appended, all_text, total_items, words, filtered_words, result,
          analysis_results, summary_parts, summary, history, domain, collected

vars == <<inputs, pc, appended, all_text, total_items, words, filtered_words, result,
          analysis_results, summary_parts, summary, history, domain, collected>>

(***************************************************************************)
(* Python values.  A text is a sequence of characters.                     *)
(***************************************************************************)
Absent == [t |-> "absent"]
NoneV == [t |-> "none"]
IntV(n) == [t |-> "int", n |-> n]
StrV(s) == [t |-> "str", s |-> s]
ListV(l) == [t |-> "list", l |-> l]
DictV(d) == [t |-> "dict", d |-> d]

\* bool(v): the truth value Python gives a value in `a or b` and `if a:`
Truthy(v) ==
  CASE v.t = "str" -> v.s # <<>>
    [] v.t = "int" -> v.n # 0
    [] v.t = "list" -> v.l # <<>>
    [] v.t = "dict" -> TRUE
    [] OTHER -> FALSE

\* d.get(key, default) on a field that may be missing
Get(v, default) == IF v.t = "absent" THEN default ELSE v

Categories == <<"news", "research", "social">>

\* the argument mapping: its three category keys, the two keys of the
\* comprehensive form, and whether it carries any other key
Mapping(n, r, s, na, sa, o) ==
  DictV([news |-> n, research |-> r, social |-> s,
         news_analysis |-> na, social_media_analysis |-> sa, other |-> o])

\* a guard that looks at the category keys only
IsEmptyMappingCategoriesOnly(v) ==
  v.d.news.t = "absent" /\ v.d.research.t = "absent" /\ v.d.social.t = "absent"

\* `not inputs` for a mapping: it has no key at all
IsEmptyMapping(v) ==
  /\ v.d.news.t = "absent" /\ v.d.research.t = "absent" /\ v.d.social.t = "absent"
  /\ v.d.news_analysis.t = "absent" /\ v.d.social_media_analysis.t = "absent"
  /\ ~v.d.other

\* `not inputs`
Falsy(v) == IF v.t = "dict" THEN IsEmptyMapping(v) ELSE ~Truthy(v)

\* a record of a category list: a mapping with optional 'content' and 'title'
Record(c, ti) == DictV([content |-> c, title |-> ti])

\* a nested per-source result of the comprehensive form
Nested(st, recs) == DictV([status |-> st, records |-> recs])

InvalidInputMsg == "Invalid inputs provided. Expected dictionary with content data."
NoContentMsg == "No valid content found in inputs. Expected 'news', 'research', and 'social' keys with content arrays, or a comprehensive analysis result."

(***************************************************************************)
(* Source normalisation, analysis.py lines 29-81.                          *)
(***************************************************************************)
\* a loop that leaves out the records whose content reports an error
ContentRecordsNoErrors(items) ==
  IF items.t = "list"
  THEN LET acc == SelectSeq(items.l,
                    LAMBDA it : /\ it.t = "dict"
                                /\ it.d.content.t # "absent"
                                /\ ~(/\ it.d.content.t = "str"
                                     /\ Len(it.d.content.s) >= 5
                                     /\ SubSeq(it.d.content.s, 1, 5) = <<"E","r","r","o","r">>))
       IN [i \in 1..Len(acc) |-> acc[i].d.content]
  ELSE <<>>

\* lines 35-39 and 54-58: the 'content' of every mapping record that has one
ContentRecords(items) ==
  IF items.t = "list"
  THEN LET acc == SelectSeq(items.l,
                    LAMBDA it : it.t = "dict" /\ it.d.content.t # "absent")
       IN [i \in 1..Len(acc) |-> acc[i].d.content]
  ELSE <<>>

\* the title preferred to the content
ResearchContentTitleFirst(it) ==
  LET c == Get(it.d.content, NoneV)
      ti == Get(it.d.title, StrV(<<>>))
  IN IF Truthy(ti) THEN ti ELSE c

\* line 47: item.get('content') or item.get('title', '')
ResearchContent(it) ==
  LET c == Get(it.d.content, NoneV)
      ti == Get(it.d.title, StrV(<<>>))
  IN IF Truthy(c) THEN c ELSE ti

\* lines 43-50
ResearchRecords(items) ==
  IF items.t = "list"
  THEN LET acc == SelectSeq(items.l,
                    LAMBDA it : it.t = "dict" /\ Truthy(ResearchContent(it)))
       IN [i \in 1..Len(acc) |-> ResearchContent(acc[i])]
  ELSE <<>>

\* lines 34-58: the texts of the three categories, news, research, social
CategoryTexts(v) ==
  ContentRecords(Get(v.d.news, ListV(<<>>)))
    \o ResearchRecords(Get(v.d.research, ListV(<<>>)))
    \o ContentRecords(Get(v.d.social, ListV(<<>>)))

\* a nested result unwrapped whatever its status
NestedTextsAnyStatus(na) ==
  IF na.t # "dict" THEN [raised |-> "AttributeError", texts |-> <<>>]
  ELSE LET recs == Get(na.d.records, ListV(<<>>))
       IN IF recs.t # "list" THEN [raised |-> "TypeError", texts |-> <<>>]
          ELSE [raised |-> "", texts |-> ContentRecords(recs)]

\* lines 68-73 and 76-81: one nested result.  A nested value that is no
\* mapping has no .get (AttributeError); a 'success' result whose record
\* list is not iterable raises TypeError.
NestedTexts(na) ==
  IF na.t # "dict" THEN [raised |-> "AttributeError", texts |-> <<>>]
  ELSE IF na.d.status # "success" THEN [raised |-> "", texts |-> <<>>]
  ELSE LET recs == Get(na.d.records, ListV(<<>>))
       IN IF recs.t # "list" THEN [raised |-> "TypeError", texts |-> <<>>]
          ELSE [raised |-> "", texts |-> ContentRecords(recs)]

\* lines 61-81: the comprehensive form, read only when nothing was accepted
ComprehensiveTexts(v) ==
  IF v.d.news_analysis.t # "absent" /\ v.d.social_media_analysis.t # "absent"
  THEN LET n == NestedTexts(v.d.news_analysis)
           s == NestedTexts(v.d.social_media_analysis)
       IN IF n.raised # "" THEN n
          ELSE IF s.raised # "" THEN [raised |-> s.raised, texts |-> n.texts]
          ELSE [raised |-> "", texts |-> n.texts \o s.texts]
  ELSE [raised |-> "", texts |-> <<>>]

\* the comprehensive form read in addition to the categories
NormalizeMerged(v) ==
  LET cat == CategoryTexts(v)
      c == ComprehensiveTexts(v)
  IN [raised |-> c.raised, texts |-> cat \o c.texts]

\* lines 29-81
Normalize(v) ==
  LET cat == CategoryTexts(v)
  IN IF Len(cat) = 0 THEN ComprehensiveTexts(v) ELSE [raised |-> "", texts |-> cat]

(***************************************************************************)
(* Tokenisation, analysis.py lines 89-94.                                  *)
(***************************************************************************)
AsciiUpper == <<"A","B","C","D","E","F","G","H","I","J","K","L","M",
                "N","O","P","Q","R","S","T","U","V","W","X","Y","Z">>
AsciiLower == <<"a","b","c","d","e","f","g","h","i","j","k","l","m",
                "n","o","p","q","r","s","t","u","v","w","x","y","z">>
Digits == {"0","1","2","3","4","5","6","7","8","9"}
\* letters outside ASCII that occur in the texts of this model
OtherUpper == <<"É">>
OtherLower == <<"é">>

Range(f) == {f[i] : i \in DOMAIN f}

\* str.lower() on one character
LowerOf ==
  [c \in Range(AsciiUpper) \cup Range(OtherUpper) |->
     IF c \in Range(AsciiUpper)
     THEN AsciiLower[CHOOSE i \in DOMAIN AsciiUpper : AsciiUpper[i] = c]
     ELSE OtherLower[CHOOSE i \in DOMAIN OtherUpper : OtherUpper[i] = c]]
Lower(c) == IF c \in DOMAIN LowerOf THEN LowerOf[c] ELSE c

\* the character class [a-zA-Z]
Letters == Range(AsciiUpper) \cup Range(AsciiLower)
IsLetter(c) == c \in Letters

\* a word character of the regex engine (\w on str patterns): a letter of
\* any alphabet, a digit or the underscore
WordChars == Letters \cup Digits \cup {"_"} \cup Range(OtherUpper) \cup Range(OtherLower)
IsWordChar(c) == c \in WordChars

\* ' '.join(texts)
RECURSIVE JoinSpace(_)
JoinSpace(texts) ==
  IF texts = <<>> THEN <<>>
  ELSE IF Len(texts) = 1 THEN texts[1]
  ELSE texts[1] \o <<" ">> \o JoinSpace(Tail(texts))

\* line 90: ' '.join(all_text).lower()
CombinedText(texts) ==
  LET j == JoinSpace(texts) IN [i \in 1..Len(j) |-> Lower(j[i])]

\* the pattern without its \b anchors, [a-zA-Z]+
WordBoundaryAnywhere(text, i) == i \in 1..(Len(text) + 1)

\* \b at position i (between text[i-1] and text[i])
WordBoundary(text, i) ==
  LET before == i > 1 /\ IsWordChar(text[i - 1])
      after == i <= Len(text) /\ IsWordChar(text[i])
  IN before # after

\* [a-zA-Z]+ at position i, greedy: the last index of the letter run
RECURSIVE RunEnd(_, _)
RunEnd(text, i) ==
  IF i < Len(text) /\ IsLetter(text[i + 1]) THEN RunEnd(text, i + 1) ELSE i

\* \b[a-zA-Z]+\b tried at position i: the end of the match, 0 when none.
\* The engine backtracks from the greedy end to shorter runs.
MatchEnd(text, i) ==
  IF WordBoundary(text, i) /\ IsLetter(text[i])
  THEN LET ends == {e \in i..RunEnd(text, i) : WordBoundary(text, e + 1)}
       IN IF ends = {} THEN 0 ELSE CHOOSE e \in ends : \A f \in ends : f <= e
  ELSE 0

\* line 94: re.findall(r'\b[a-zA-Z]+\b', text), left to right, non-overlapping.
\* The scan of the positions lo..hi that starts at lo: where the pattern
\* matches the scan keeps the match and goes on after its end, elsewhere it
\* goes on at the next position.  The range is scanned by halves, the second
\* from where the scan of the first left off.
RECURSIVE FindAllFrom(_, _, _)
FindAllFrom(text, lo, hi) ==
  IF lo > hi THEN [found |-> <<>>, next |-> lo]
  ELSE IF lo = hi
  THEN LET e == MatchEnd(text, lo)
       IN IF e = 0 THEN [found |-> <<>>, next |-> lo + 1]
          ELSE [found |-> <<SubSeq(text, lo, e)>>, next |-> e + 1]
  ELSE LET first == FindAllFrom(text, lo, (lo + hi) \div 2)
           second == FindAllFrom(text, first.next, hi)
       IN [found |-> first.found \o second.found, next |-> second.next]

FindAll(text) == FindAllFrom(text, 1, Len(text)).found

(***************************************************************************)
(* Stopword filter and frequency ranking, analysis.py lines 96-117.        *)
(***************************************************************************)
\* lines 97-108
stopwords ==
  { <<"a">>,
    <<"a","b","o","u","t">>,
    <<"a","b","o","v","e">>,
    <<"a","f","t","e","r">>,
    <<"a","m">>,
    <<"a","m","o","n","g">>,
    <<"a","n">>,
    <<"a","n","d">>,
    <<"a","r","e">>,
    <<"a","t">>,
    <<"b","e">>,
    <<"b","e","e","n">>,
    <<"b","e","f","o","r","e">>,
    <<"b","e","i","n","g">>,
    <<"b","e","l","o","w">>,
    <<"b","e","t","w","e","e","n">>,
    <<"b","u","t">>,
    <<"b","y">>,
    <<"c","a","n">>,
    <<"c","o","u","l","d">>,
    <<"d","i","d">>,
    <<"d","o">>,
    <<"d","o","e","s">>,
    <<"d","o","i","n","g">>,
    <<"d","u","r","i","n","g">>,
    <<"f","o","r">>,
    <<"f","r","o","m">>,
    <<"h","a","d">>,
    <<"h","a","s">>,
    <<"h","a","v","e">>,
    <<"h","a","v","i","n","g">>,
    <<"h","e">>,
    <<"h","e","r">>,
    <<"h","e","r","s">>,
    <<"h","e","r","s","e","l","f">>,
    <<"h","i","m">>,
    <<"h","i","m","s","e","l","f">>,
    <<"h","i","s">>,
    <<"i">>,
    <<"i","n">>,
    <<"i","n","t","o">>,
    <<"i","s">>,
    <<"i","t">>,
    <<"i","t","s">>,
    <<"i","t","s","e","l","f">>,
    <<"l","a","t","e","s","t">>,
    <<"m","a","y">>,
    <<"m","e">>,
    <<"m","i","g","h","t">>,
    <<"m","u","s","t">>,
    <<"m","y">>,
    <<"m","y","s","e","l","f">>,
    <<"n","e","w">>,
    <<"n","e","w","s">>,
    <<"o","f">>,
    <<"o","n">>,
    <<"o","r">>,
    <<"o","u","r">>,
    <<"o","u","r","s">>,
    <<"o","u","r","s","e","l","v","e","s">>,
    <<"s","a","m","p","l","e">>,
    <<"s","h","a","l","l">>,
    <<"s","h","e">>,
    <<"s","h","o","u","l","d">>,
    <<"t","h","a","t">>,
    <<"t","h","e">>,
    <<"t","h","e","i","r">>,
    <<"t","h","e","i","r","s">>,
    <<"t","h","e","m">>,
    <<"t","h","e","m","s","e","l","v","e","s">>,
    <<"t","h","e","s","e">>,
    <<"t","h","e","y">>,
    <<"t","h","i","s">>,
    <<"t","h","o","s","e">>,
    <<"t","h","r","o","u","g","h">>,
    <<"t","o">>,
    <<"t","o","d","a","y">>,
    <<"u","p">>,
    <<"w","a","s">>,
    <<"w","e">>,
    <<"w","e","r","e">>,
    <<"w","h","a","t">>,
    <<"w","h","i","c","h">>,
    <<"w","h","o">>,
    <<"w","h","o","m">>,
    <<"w","i","l","l">>,
    <<"w","i","t","h">>,
    <<"w","o","u","l","d">>,
    <<"y","o","u">>,
    <<"y","o","u","r">>,
    <<"y","o","u","r","s">>,
    <<"y","o","u","r","s","e","l","f">>,
    <<"y","o","u","r","s","e","l","v","e","s">> }

\* line 111
MinLength == 2

\* the length filter without the stopword filter
FilterWordsLengthOnly(ws) == SelectSeq(ws, LAMBDA w : Len(w) > MinLength)

FilterWords(ws) ==
  SelectSeq(ws, LAMBDA w : Len(w) > MinLength /\ w \notin stopwords)

\* line 114: Counter(filtered_words); its keys keep first-insertion order
CounterKeys(ws) ==
  LET firsts == SelectSeq([i \in 1..Len(ws) |-> i],
                          LAMBDA i : \A j \in 1..(i - 1) : ws[j] # ws[i])
  IN [k \in 1..Len(firsts) |-> ws[firsts[k]]]

Count(w, ws) == Cardinality({i \in DOMAIN ws : ws[i] = w})

\* sorted(items, key=count, reverse=True): descending count, stable
SortedByCount(keys, cnt) ==
  LET counts == SubSeq([i \in DOMAIN keys |-> cnt[keys[i]]], 1, Len(keys))
      Before(i, j) ==
        \/ counts[i] > counts[j]
        \/ counts[i] = counts[j] /\ i < j
      place == SubSeq([i \in DOMAIN keys |->
                         1 + Cardinality({j \in DOMAIN keys : Before(j, i)})],
                      1, Len(keys))
  IN [r \in DOMAIN keys |-> keys[CHOOSE i \in DOMAIN keys : place[i] = r]]

Reverse(q) == [i \in 1..Len(q) |-> q[Len(q) + 1 - i]]

\* a ranking that lists equal counts latest-seen first
MostCommonLastSeenFirst(ws, n) ==
  LET keys == Reverse(CounterKeys(ws))
      s == SortedByCount(keys, [w \in Range(keys) |-> Count(w, ws)])
  IN SubSeq(s, 1, IF Len(s) < n THEN Len(s) ELSE n)

\* Counter.most_common(n): the n first of the stable descending order
MostCommon(ws, n) ==
  LET keys == CounterKeys(ws)
      s == SortedByCount(keys, [w \in Range(keys) |-> Count(w, ws)])
  IN SubSeq(s, 1, IF Len(s) < n THEN Len(s) ELSE n)

\* line 117
TopN == 10
TopKeywords(fw) == MostCommon(fw, TopN)

(***************************************************************************)
(* Topic classification, analysis.py lines 119-135.                        *)
(***************************************************************************)
\* lines 123-130, in declaration order
theme_patterns ==
  << [theme |-> "Technology & Innovation",
      keywords |-> << <<"t","e","c","h","n","o","l","o","g","y">>,
                     <<"i","n","n","o","v","a","t","i","o","n">>,
                     <<"t","e","c","h">>,
                     <<"a","i">>,
                     <<"a","r","t","i","f","i","c","i","a","l">>,
                     <<"i","n","t","e","l","l","i","g","e","n","c","e">>,
                     <<"m","a","c","h","i","n","e">>,
                     <<"l","e","a","r","n","i","n","g">>,
                     <<"d","i","g","i","t","a","l">>,
                     <<"a","l","g","o","r","i","t","h","m">> >>],
     [theme |-> "Finance & Investment",
      keywords |-> << <<"f","i","n","a","n","c","e">>,
                     <<"f","i","n","t","e","c","h">>,
                     <<"i","n","v","e","s","t","m","e","n","t">>,
                     <<"m","o","n","e","y">>,
                     <<"f","i","n","a","n","c","i","a","l">>,
                     <<"b","a","n","k","i","n","g">>,
                     <<"p","a","y","m","e","n","t">>,
                     <<"m","a","r","k","e","t">>,
                     <<"e","c","o","n","o","m","i","c">>,
                     <<"e","c","o","n","o","m","y">> >>],
     [theme |-> "Healthcare & Medical",
      keywords |-> << <<"h","e","a","l","t","h","c","a","r","e">>,
                     <<"h","e","a","l","t","h">>,
                     <<"m","e","d","i","c","a","l">>,
                     <<"m","e","d","i","c","i","n","e">>,
                     <<"p","a","t","i","e","n","t">>,
                     <<"t","r","e","a","t","m","e","n","t">>,
                     <<"c","l","i","n","i","c","a","l">>,
                     <<"p","h","a","r","m","a","c","e","u","t","i","c","a","l">> >>],
     [theme |-> "Business & Industry",
      keywords |-> << <<"b","u","s","i","n","e","s","s">>,
                     <<"i","n","d","u","s","t","r","y">>,
                     <<"c","o","m","p","a","n","y">>,
                     <<"c","o","r","p","o","r","a","t","e">>,
                     <<"s","t","a","r","t","u","p">>,
                     <<"e","n","t","e","r","p","r","i","s","e">>,
                     <<"c","o","m","m","e","r","c","i","a","l">>,
                     <<"g","r","o","w","t","h">>,
                     <<"d","e","v","e","l","o","p","m","e","n","t">> >>],
     [theme |-> "Research & Analysis",
      keywords |-> << <<"r","e","s","e","a","r","c","h">>,
                     <<"a","n","a","l","y","s","i","s">>,
                     <<"s","t","u","d","y">>,
                     <<"d","a","t","a">>,
                     <<"f","i","n","d","i","n","g","s">>,
                     <<"r","e","p","o","r","t">>,
                     <<"p","a","p","e","r">>,
                     <<"a","c","a","d","e","m","i","c">>,
                     <<"s","c","i","e","n","t","i","f","i","c">> >>],
     [theme |-> "Market Trends",
      keywords |-> << <<"t","r","e","n","d">>,
                     <<"t","r","e","n","d","i","n","g">>,
                     <<"m","a","r","k","e","t">>,
                     <<"g","r","o","w","t","h">>,
                     <<"i","n","c","r","e","a","s","e">>,
                     <<"s","e","c","t","o","r">>,
                     <<"i","n","d","u","s","t","r","y">>,
                     <<"d","e","m","a","n","d">>,
                     <<"c","o","n","s","u","m","e","r">> >>] >>

\* line 133
ThemeScore(keywords, fw) ==
  Cardinality({i \in DOMAIN keywords : keywords[i] \in Range(fw)})

\* themes matched against the top keywords only
TopicsFirstOnly(fw) ==
  LET hit == SelectSeq(theme_patterns, LAMBDA p : ThemeScore(p.keywords, fw) > 0)
  IN IF hit = <<>> THEN <<>> ELSE <<hit[1].theme>>

TopicsOfTopKeywords(fw) ==
  LET hit == SelectSeq(theme_patterns,
                       LAMBDA p : ThemeScore(p.keywords, TopKeywords(fw)) > 0)
  IN [i \in 1..Len(hit) |-> hit[i].theme]

\* matched themes listed by descending score
TopicsByScore(fw) ==
  LET hit == SelectSeq(theme_patterns, LAMBDA p : ThemeScore(p.keywords, fw) > 0)
  IN SortedByCount([i \in 1..Len(hit) |-> hit[i].theme],
                   [th \in {hit[i].theme : i \in DOMAIN hit} |->
                      ThemeScore((CHOOSE p \in Range(hit) : p.theme = th).keywords, fw)])

\* lines 132-135
Topics(fw) ==
  LET hit == SelectSeq(theme_patterns, LAMBDA p : ThemeScore(p.keywords, fw) > 0)
  IN [i \in 1..Len(hit) |-> hit[i].theme]

(***************************************************************************)
(* Summary notes, analysis.py lines 137-143: the two templates with the    *)
(* values they interpolate.                                                *)
(***************************************************************************)
Prefix(s, n) == SubSeq(s, 1, IF Len(s) < n THEN Len(s) ELSE n)
DominantTopics == 3
RecurringTerms == 5
SummaryNotesRunningCount(n, topics, kw) ==
  IF topics # <<>>
  THEN [template |-> "Analysis of {total_items} items reveals dominant themes in {topics}. Key recurring terms include {keywords}.",
        total_items |-> total_items + n,
        topics |-> SubSeq(topics, 1, IF Len(topics) < 3 THEN Len(topics) ELSE 3),
        keywords |-> SubSeq(kw, 1, IF Len(kw) < 5 THEN Len(kw) ELSE 5)]
  ELSE [template |-> "Analysis of {total_items} items shows diverse content without clear dominant themes.",
        total_items |-> total_items + n, topics |-> <<>>, keywords |-> <<>>]
SummaryNotesUncut(n, topics, kw) ==
  IF topics # <<>>
  THEN [template |-> "Analysis of {total_items} items reveals dominant themes in {topics}. Key recurring terms include {keywords}.",
        total_items |-> n, topics |-> topics, keywords |-> kw]
  ELSE [template |-> "Analysis of {total_items} items shows diverse content without clear dominant themes.",
        total_items |-> n, topics |-> <<>>, keywords |-> <<>>]
SummaryNotes(n, topics, kw) ==
  IF topics # <<>>
  THEN [template |-> "Analysis of {total_items} items reveals dominant themes in {topics}. Key recurring terms include {keywords}.",
        total_items |-> n,
        topics |-> Prefix(topics, DominantTopics),
        keywords |-> Prefix(kw, RecurringTerms)]
  ELSE [template |-> "Analysis of {total_items} items shows diverse content without clear dominant themes.",
        total_items |-> n,
        topics |-> <<>>,
        keywords |-> <<>>]

(***************************************************************************)
(* analyze_collected_results, analysis.py lines 12-150.  The value is the  *)
(* function's return value together with its locals; an uncaught exception *)
(* is a result with the single field "raised".                             *)
(***************************************************************************)
OutcomeOneErrorKind(res, texts, ws, fw) ==
  [result |-> IF "status" \in DOMAIN res /\ res.status = "error"
              THEN [status |-> "error", error_message |-> NoContentMsg]
              ELSE res,
   all_text |-> texts, total_items |-> Len(texts), words |-> ws, filtered_words |-> fw]

\* an analysis that refuses texts of which no word survives the filter
OutcomeNoSignalEarly(res, texts, ws, fw) ==
  [result |-> IF "status" \in DOMAIN res /\ res.status = "success" /\ fw = <<>>
              THEN [status |-> "error", error_message |-> NoContentMsg]
              ELSE res,
   all_text |-> texts, total_items |-> Len(texts), words |-> ws, filtered_words |-> fw]

Outcome(res, texts, ws, fw) ==
  [result |-> res, all_text |-> texts, total_items |-> Len(texts),
   words |-> ws, filtered_words |-> fw]

analyze_collected_results(v) ==
  IF Falsy(v) \/ v.t # "dict"
  THEN Outcome([status |-> "error", error_message |-> InvalidInputMsg], <<>>, <<>>, <<>>)
  ELSE LET norm == Normalize(v) IN
    IF norm.raised # ""
    THEN Outcome([raised |-> norm.raised], norm.texts, <<>>, <<>>)
    ELSE IF Len(norm.texts) = 0
    THEN Outcome([status |-> "error", error_message |-> NoContentMsg], <<>>, <<>>, <<>>)
    ELSE IF \E i \in DOMAIN norm.texts : norm.texts[i].t # "str"
    THEN Outcome([raised |-> "TypeError"], norm.texts, <<>>, <<>>)
    ELSE LET combined_text == CombinedText([i \in DOMAIN norm.texts |-> norm.texts[i].s])
             ws == FindAll(combined_text)
             fw == FilterWords(ws)
             top_keywords == TopKeywords(fw)
             topics == Topics(fw)
         IN Outcome([status |-> "success",
                     keywords |-> top_keywords,
                     topics |-> topics,
                     summary_notes |-> SummaryNotes(Len(norm.texts), topics, top_keywords)],
                    norm.texts, ws, fw)

(***************************************************************************)
(* generate_summary, src/agents/summarization.py lines 10-120.  Its        *)
(* argument is a Python value; the mapping it expects carries the keys     *)
(* status, error_message, keywords, topics and summary_notes, each present *)
(* or not, and possibly other keys.  The texts it formats are sequences of *)
(* characters.                                                             *)
(***************************************************************************)
AnalysisResults(st, em, kw, tp, sn, o) ==
  DictV([status |-> st, error_message |-> em, keywords |-> kw, topics |-> tp,
         summary_notes |-> sn, other |-> o])

\* `not analysis_results`: a mapping is falsy when it has no key at all
FalsyResults(v) ==
  IF v.t = "dict"
  THEN /\ \A k \in {"status", "error_message", "keywords", "topics", "summary_notes"} :
            v.d[k].t = "absent"
       /\ ~v.d.other
  ELSE ~Truthy(v)

\* the status texts
ErrorText == <<"e","r","r","o","r">>
SuccessText == <<"s","u","c","c","e","s","s">>

\* line 24
InvalidAnalysisText ==
  <<"I","n","v","a","l","i","d"," ","a","n","a","l","y","s","i","s"," ","r",
    "e","s","u","l","t","s"," ","p","r","o","v","i","d","e","d","."," ","E",
    "x","p","e","c","t","e","d"," ","d","i","c","t","i","o","n","a","r","y",
    " ","w","i","t","h"," ","a","n","a","l","y","s","i","s"," ","d","a","t",
    "a",".">>

\* line 29
UnknownErrorText ==
  <<"U","n","k","n","o","w","n"," ","e","r","r","o","r"," ","i","n"," ","a",
    "n","a","l","y","s","i","s">>

\* line 32
FailurePrefix ==
  <<"A","n","a","l","y","s","i","s"," ","r","e","s","u","l","t","s"," ","i",
    "n","d","i","c","a","t","e"," ","f","a","i","l","u","r","e",":"," ">>

\* line 43
NoSignalText ==
  <<"N","o"," ","m","e","a","n","i","n","g","f","u","l"," ","k","e","y","w",
    "o","r","d","s"," ","o","r"," ","t","o","p","i","c","s"," ","f","o","u",
    "n","d"," ","i","n"," ","a","n","a","l","y","s","i","s"," ","r","e","s",
    "u","l","t","s",".">>

\* line 52
OpeningSinglePrefix ==
  <<"E","x","e","c","u","t","i","v","e"," ","S","u","m","m","a","r","y",":",
    " ","A","n","a","l","y","s","i","s"," ","r","e","v","e","a","l","s"," ",
    "a"," ","p","r","i","m","a","r","y"," ","f","o","c","u","s"," ","o","n",
    " ">>

\* line 54
OpeningManyPrefix ==
  <<"E","x","e","c","u","t","i","v","e"," ","S","u","m","m","a","r","y",":",
    " ","A","n","a","l","y","s","i","s"," ","r","e","v","e","a","l","s"," ",
    "k","e","y"," ","t","h","e","m","e","s"," ","a","c","r","o","s","s"," ">>

OpeningManyMiddle ==
  <<" ","m","a","j","o","r"," ","a","r","e","a","s",":"," ">>

\* line 56
OpeningGeneric ==
  <<"E","x","e","c","u","t","i","v","e"," ","S","u","m","m","a","r","y",":",
    " ","A","n","a","l","y","s","i","s"," ","o","f"," ","c","o","l","l","e",
    "c","t","e","d"," ","d","a","t","a"," ","r","e","v","e","a","l","s"," ",
    "d","i","v","e","r","s","e"," ","c","o","n","t","e","n","t"," ","p","a",
    "t","t","e","r","n","s",".">>

\* line 62
FindingsThreePrefix ==
  <<"K","e","y"," ","f","i","n","d","i","n","g","s"," ","c","e","n","t","e",
    "r"," ","a","r","o","u","n","d"," ">>

FindingsThreeSuffix ==
  <<","," ","i","n","d","i","c","a","t","i","n","g"," ","s","t","r","o","n",
    "g"," ","m","a","r","k","e","t"," ","i","n","t","e","r","e","s","t"," ",
    "a","n","d"," ","a","c","t","i","v","i","t","y"," ","i","n"," ","t","h",
    "e","s","e"," ","a","r","e","a","s",".">>

\* line 64
FindingsFewPrefix ==
  <<"K","e","y"," ","f","i","n","d","i","n","g","s"," ","h","i","g","h","l",
    "i","g","h","t"," ">>

FindingsFewSuffix ==
  <<" ","a","s"," ","p","r","i","m","a","r","y"," ","a","r","e","a","s"," ",
    "o","f"," ","f","o","c","u","s",".">>

\* lines 85 and 87
InsightsPrefix ==
  <<"T","h","e"," ","a","n","a","l","y","s","i","s"," ","i","n","d","i","c",
    "a","t","e","s"," ">>

\* line 102
StrategicPrefix ==
  <<"S","t","r","a","t","e","g","i","c"," ","i","m","p","l","i","c","a","t",
    "i","o","n","s"," ","s","u","g","g","e","s","t"," ">>

\* line 106
AssessmentPrefix ==
  <<"O","v","e","r","a","l","l"," ","a","s","s","e","s","s","m","e","n","t",
    ":"," ">>

\* line 108
ClosingGeneric ==
  <<"T","h","e"," ","c","o","m","b","i","n","e","d"," ","a","n","a","l","y",
    "s","i","s"," ","p","r","o","v","i","d","e","s"," ","v","a","l","u","a",
    "b","l","e"," ","i","n","s","i","g","h","t","s"," ","f","o","r"," ","s",
    "t","r","a","t","e","g","i","c"," ","d","e","c","i","s","i","o","n","-",
    "m","a","k","i","n","g"," ","a","n","d"," ","m","a","r","k","e","t"," ",
    "p","o","s","i","t","i","o","n","i","n","g",".">>

\* line 112
RecommendationPrefix ==
  <<"R","e","c","o","m","m","e","n","d","a","t","i","o","n",":"," ","C","o",
    "n","t","i","n","u","e"," ","m","o","n","i","t","o","r","i","n","g"," ",
    "d","e","v","e","l","o","p","m","e","n","t","s"," ","i","n"," ">>

RecommendationSuffix ==
  <<" ","f","o","r"," ","e","m","e","r","g","i","n","g"," ","o","p","p","o",
    "r","t","u","n","i","t","i","e","s"," ","a","n","d"," ","c","o","m","p",
    "e","t","i","t","i","v","e"," ","i","n","t","e","l","l","i","g","e","n",
    "c","e",".">>

CommaSpace == <<","," ">>

CommaAnd == <<","," ","a","n","d"," ">>

AndText == <<" ","a","n","d"," ">>

Period == <<".">>

\* str(None)
NoneText == <<"N","o","n","e">>

\* lines 70-81: the themes with an insight, in the order they are tested
topic_insight_table ==
  << [theme |-> <<"T","e","c","h","n","o","l","o","g","y"," ","&"," ","I",
                   "n","n","o","v","a","t","i","o","n">>,
      insight |-> <<"s","i","g","n","i","f","i","c","a","n","t"," ","t","e",
                   "c","h","n","o","l","o","g","i","c","a","l"," ","a","d",
                   "v","a","n","c","e","m","e","n","t"," ","a","n","d"," ",
                   "i","n","n","o","v","a","t","i","o","n"," ","a","c","t",
                   "i","v","i","t","y">>],
     [theme |-> <<"F","i","n","a","n","c","e"," ","&"," ","I","n","v","e",
                   "s","t","m","e","n","t">>,
      insight |-> <<"a","c","t","i","v","e"," ","f","i","n","a","n","c","i",
                   "a","l"," ","m","a","r","k","e","t","s"," ","a","n","d",
                   " ","i","n","v","e","s","t","m","e","n","t"," ","o","p",
                   "p","o","r","t","u","n","i","t","i","e","s">>],
     [theme |-> <<"H","e","a","l","t","h","c","a","r","e"," ","&"," ","M",
                   "e","d","i","c","a","l">>,
      insight |-> <<"d","e","v","e","l","o","p","m","e","n","t","s"," ","i",
                   "n"," ","h","e","a","l","t","h","c","a","r","e"," ","a",
                   "n","d"," ","m","e","d","i","c","a","l"," ","r","e","s",
                   "e","a","r","c","h">>],
     [theme |-> <<"B","u","s","i","n","e","s","s"," ","&"," ","I","n","d",
                   "u","s","t","r","y">>,
      insight |-> <<"b","u","s","i","n","e","s","s"," ","g","r","o","w","t",
                   "h"," ","a","n","d"," ","i","n","d","u","s","t","r","i",
                   "a","l"," ","d","e","v","e","l","o","p","m","e","n","t">>],
     [theme |-> <<"R","e","s","e","a","r","c","h"," ","&"," ","A","n","a",
                   "l","y","s","i","s">>,
      insight |-> <<"o","n","g","o","i","n","g"," ","r","e","s","e","a","r",
                   "c","h"," ","i","n","i","t","i","a","t","i","v","e","s",
                   " ","a","n","d"," ","a","n","a","l","y","t","i","c","a",
                   "l"," ","s","t","u","d","i","e","s">>],
     [theme |-> <<"M","a","r","k","e","t"," ","T","r","e","n","d","s">>,
      insight |-> <<"e","m","e","r","g","i","n","g"," ","m","a","r","k","e",
                   "t"," ","t","r","e","n","d","s"," ","a","n","d"," ","c",
                   "o","n","s","u","m","e","r"," ","b","e","h","a","v","i",
                   "o","r"," ","s","h","i","f","t","s">>] >>

FintechKeyword == <<"f","i","n","t","e","c","h">>

HealthcareKeyword == <<"h","e","a","l","t","h","c","a","r","e">>

\* line 95
TechWords ==
  << <<"t","e","c","h","n","o","l","o","g","y">>,
     <<"t","e","c","h">>,
     <<"a","i">>,
     <<"d","i","g","i","t","a","l">> >>

\* line 92
FinanceTopic ==
  <<"F","i","n","a","n","c","e"," ","&"," ","I","n","v","e","s","t","m","e",
    "n","t">>

\* line 98
HealthcareTopic ==
  <<"H","e","a","l","t","h","c","a","r","e"," ","&"," ","M","e","d","i","c",
    "a","l">>

\* line 93
FintechImplication ==
  <<"o","p","p","o","r","t","u","n","i","t","i","e","s"," ","i","n"," ","f",
    "i","n","a","n","c","i","a","l"," ","t","e","c","h","n","o","l","o","g",
    "y"," ","a","n","d"," ","d","i","g","i","t","a","l"," ","p","a","y","m",
    "e","n","t"," ","s","o","l","u","t","i","o","n","s">>

\* line 96
TechImplication ==
  <<"p","o","t","e","n","t","i","a","l"," ","f","o","r"," ","t","e","c","h",
    "n","o","l","o","g","y","-","d","r","i","v","e","n"," ","t","r","a","n",
    "s","f","o","r","m","a","t","i","o","n"," ","a","n","d"," ","a","u","t",
    "o","m","a","t","i","o","n">>

\* line 99
HealthcareImplication ==
  <<"g","r","o","w","t","h"," ","p","r","o","s","p","e","c","t","s"," ","i",
    "n"," ","h","e","a","l","t","h","c","a","r","e"," ","i","n","n","o","v",
    "a","t","i","o","n"," ","a","n","d"," ","m","e","d","i","c","a","l"," ",
    "t","e","c","h","n","o","l","o","g","y">>

\* sep.join(texts)
RECURSIVE Join(_, _)
Join(sep, texts) ==
  IF texts = <<>> THEN <<>>
  ELSE IF Len(texts) = 1 THEN texts[1]
  ELSE texts[1] \o sep \o Join(sep, Tail(texts))

\* str.lower()
LowerText(s) == [i \in DOMAIN s |-> Lower(s[i])]

\* str(n) of a natural number
DigitText == <<"0","1","2","3","4","5","6","7","8","9">>
RECURSIVE IntText(_)
IntText(n) ==
  IF n < Len(DigitText) THEN <<DigitText[n + 1]>>
  ELSE IntText(n \div Len(DigitText)) \o <<DigitText[(n % Len(DigitText)) + 1]>>

\* the text an f-string puts for a value: a string as it is, str(n), 'None'
PyStr(v) ==
  CASE v.t = "str" -> v.s
    [] v.t = "int" -> IntText(v.n)
    [] OTHER -> NoneText

Strs(l) == [i \in DOMAIN l |-> l[i].s]
AllStr(l) == \A i \in DOMAIN l : l[i].t = "str"

\* a clause group: the clauses it appends to summary_parts, or the
\* exception it raises
Parts(ps) == [raised |-> "", parts |-> ps]
Raises(e) == [raised |-> e, parts |-> <<>>]

\* lines 50-56: the opening clause.  topics[0].lower() needs a string,
\* ', '.join(topics) needs strings only
OpeningClauseKeepCase(topics) ==
  IF ~Truthy(topics) THEN Parts(<<OpeningGeneric>>)
  ELSE IF Len(topics.l) = 1
  THEN IF topics.l[1].t # "str" THEN Raises("AttributeError")
       ELSE Parts(<<OpeningSinglePrefix \o topics.l[1].s \o Period>>)
  ELSE IF ~AllStr(topics.l) THEN Raises("TypeError")
       ELSE Parts(<<OpeningManyPrefix \o IntText(Len(topics.l)) \o OpeningManyMiddle
                      \o Join(CommaSpace, Strs(topics.l)) \o Period>>)

OpeningClause(topics) ==
  IF ~Truthy(topics) THEN Parts(<<OpeningGeneric>>)
  ELSE IF Len(topics.l) = 1
  THEN IF topics.l[1].t # "str" THEN Raises("AttributeError")
       ELSE Parts(<<OpeningSinglePrefix \o LowerText(topics.l[1].s) \o Period>>)
  ELSE IF ~AllStr(topics.l) THEN Raises("TypeError")
       ELSE Parts(<<OpeningManyPrefix \o IntText(Len(topics.l)) \o OpeningManyMiddle
                      \o LowerText(Join(CommaSpace, Strs(topics.l))) \o Period>>)

\* lines 59-64: the findings clause
TopCut == 5
FindingsNamed == 3
FindingsClauseHighlightTop(keywords) ==
  IF ~Truthy(keywords) THEN Parts(<<>>)
  ELSE IF ~AllStr(Prefix(keywords.l, TopCut)) THEN Raises("TypeError")
  ELSE Parts(<<FindingsFewPrefix \o Join(CommaSpace, Strs(Prefix(keywords.l, TopCut)))
                 \o FindingsFewSuffix>>)

FindingsClause(keywords) ==
  IF ~Truthy(keywords) THEN Parts(<<>>)
  ELSE LET top_keywords == Prefix(keywords.l, TopCut) IN
    IF Len(top_keywords) >= FindingsNamed
    THEN Parts(<<FindingsThreePrefix \o PyStr(top_keywords[1]) \o CommaSpace
                   \o PyStr(top_keywords[2]) \o CommaAnd \o PyStr(top_keywords[3])
                   \o FindingsThreeSuffix>>)
    ELSE IF ~AllStr(top_keywords) THEN Raises("TypeError")
    ELSE Parts(<<FindingsFewPrefix \o Join(CommaSpace, Strs(top_keywords))
                   \o FindingsFewSuffix>>)

\* lines 67-87: the insight of every theme of the table that is in topics,
\* in the order of the table
TopicInsightsInListOrder(topics) ==
  LET known == SelectSeq(topics, LAMBDA x :
                 \E i \in DOMAIN topic_insight_table : x = StrV(topic_insight_table[i].theme))
  IN [i \in DOMAIN known |->
        (CHOOSE r \in Range(topic_insight_table) : StrV(r.theme) = known[i]).insight]

TopicInsights(topics) ==
  LET hit == SelectSeq(topic_insight_table,
                       LAMBDA r : \E i \in DOMAIN topics : topics[i] = StrV(r.theme))
  IN [i \in DOMAIN hit |-> hit[i].insight]

InsightsText(topic_insights) ==
  IF Len(topic_insights) = 1
  THEN InsightsPrefix \o topic_insights[1] \o Period
  ELSE InsightsPrefix
         \o Join(CommaSpace, SubSeq(topic_insights, 1, Len(topic_insights) - 1))
         \o CommaAnd \o topic_insights[Len(topic_insights)] \o Period

InsightsClause(topics) ==
  IF ~Truthy(topics) THEN Parts(<<>>)
  ELSE LET topic_insights == TopicInsights(topics.l) IN
    IF topic_insights = <<>> THEN Parts(<<>>)
    ELSE Parts(<<InsightsText(topic_insights)>>)

\* lines 90-102: the strategic implications.  keywords[:5] needs a
\* sequence, k.lower() a string, and `x in topics` a container; the topic
\* test of a pattern is evaluated only when its keyword test fails
InSeq(x, s) == \E i \in DOMAIN s : s[i] = x

FintechPattern(low, topics) == InSeq(FintechKeyword, low) \/ InSeq(StrV(FinanceTopic), topics)
TechPattern(low, topics) == \E i \in DOMAIN TechWords : InSeq(TechWords[i], low)
HealthcarePattern(low, topics) ==
  InSeq(HealthcareKeyword, low) \/ InSeq(StrV(HealthcareTopic), topics)

StrategicImplications(low, topics) ==
  (IF FintechPattern(low, topics) THEN <<FintechImplication>> ELSE <<>>)
    \o (IF TechPattern(low, topics) THEN <<TechImplication>> ELSE <<>>)
    \o (IF HealthcarePattern(low, topics) THEN <<HealthcareImplication>> ELSE <<>>)

StrategicClause(keywords, topics) ==
  IF keywords.t # "list" THEN Raises("TypeError")
  ELSE IF ~AllStr(Prefix(keywords.l, TopCut)) THEN Raises("AttributeError")
  ELSE LET low == [i \in DOMAIN Prefix(keywords.l, TopCut) |-> LowerText(keywords.l[i].s)] IN
    IF topics.t # "list" /\ ~(InSeq(FintechKeyword, low) /\ InSeq(HealthcareKeyword, low))
    THEN Raises("TypeError")
    ELSE LET strategic_implications ==
               StrategicImplications(low, IF topics.t = "list" THEN topics.l ELSE <<>>)
         IN IF strategic_implications = <<>> THEN Parts(<<>>)
            ELSE Parts(<<StrategicPrefix \o Join(CommaSpace, strategic_implications)
                           \o Period>>)

\* lines 105-108: the assessment of the analysis, or the generic closing
AssessmentClause(summary_notes) ==
  IF Truthy(summary_notes) THEN Parts(<<AssessmentPrefix \o PyStr(summary_notes)>>)
  ELSE Parts(<<ClosingGeneric>>)

\* lines 111-112: the recommendation
RecommendationMin == 3
RecommendationClauseFromTwo(keywords) ==
  IF keywords.t # "list" THEN Raises("TypeError")
  ELSE IF Len(keywords.l) >= 2
  THEN Parts(<<RecommendationPrefix \o PyStr(keywords.l[1]) \o AndText
                 \o PyStr(keywords.l[2]) \o RecommendationSuffix>>)
  ELSE Parts(<<>>)

RecommendationClause(keywords) ==
  IF keywords.t # "list" THEN Raises("TypeError")
  ELSE IF Len(keywords.l) >= RecommendationMin
  THEN Parts(<<RecommendationPrefix \o PyStr(keywords.l[1]) \o AndText
                 \o PyStr(keywords.l[2]) \o RecommendationSuffix>>)
  ELSE Parts(<<>>)

\* the statements of lines 47-112 in their order: the parts appended until
\* the first exception
RECURSIVE Appended(_)
Appended(groups) ==
  IF groups = <<>> THEN Parts(<<>>)
  ELSE IF groups[1].raised # "" THEN groups[1]
  ELSE LET rest == Appended(Tail(groups))
       IN [raised |-> rest.raised, parts |-> groups[1].parts \o rest.parts]

SummaryPartsAssessmentLast(keywords, topics, summary_notes) ==
  Appended(<<OpeningClause(topics), FindingsClause(keywords), InsightsClause(topics),
             StrategicClause(keywords, topics), RecommendationClause(keywords),
             AssessmentClause(summary_notes)>>)

SummaryParts(keywords, topics, summary_notes) ==
  Appended(<<OpeningClause(topics), FindingsClause(keywords), InsightsClause(topics),
             StrategicClause(keywords, topics), AssessmentClause(summary_notes),
             RecommendationClause(keywords)>>)

\* lines 29-32: the message of a failed analysis, or the default of the get
FailureMessageUnknown(v) == FailurePrefix \o UnknownErrorText
FailureMessage(v) ==
  FailurePrefix \o PyStr(Get(v.d.error_message, StrV(UnknownErrorText)))

\* the return value of generate_summary and its local summary_parts; an
\* uncaught exception is a result with the single field "raised"
SummaryOutcomePartial(res, parts) ==
  [result |-> IF "status" \in DOMAIN res /\ res.status = "error"
              THEN [status |-> "error", error_message |-> res.error_message,
                    summary |-> JoinSpace(parts)]
              ELSE res,
   summary_parts |-> parts]
SummaryOutcome(res, parts) == [result |-> res, summary_parts |-> parts]

generate_summary(v) ==
  IF FalsyResults(v) \/ v.t # "dict"
  THEN SummaryOutcome([status |-> "error", error_message |-> InvalidAnalysisText], <<>>)
  ELSE IF v.d.status # StrV(SuccessText)
  THEN SummaryOutcome([status |-> "error", error_message |-> FailureMessage(v)], <<>>)
  ELSE LET keywords == Get(v.d.keywords, ListV(<<>>))
           topics == Get(v.d.topics, ListV(<<>>))
           summary_notes == Get(v.d.summary_notes, StrV(<<>>))
       IN IF ~Truthy(keywords) /\ ~Truthy(topics)
          THEN SummaryOutcome([status |-> "error", error_message |-> NoSignalText], <<>>)
          ELSE LET built == SummaryParts(keywords, topics, summary_notes) IN
            IF built.raised # "" THEN SummaryOutcome([raised |-> built.raised], built.parts)
            ELSE SummaryOutcome([status |-> "success", summary |-> JoinSpace(built.parts)],
                            built.parts)

\* analysis.py lines 139 and 143
NotesPrefix == <<"A","n","a","l","y","s","i","s"," ","o","f"," ">>

\* analysis.py line 139
NotesThemes ==
  <<" ","i","t","e","m","s"," ","r","e","v","e","a","l","s"," ","d","o","m",
    "i","n","a","n","t"," ","t","h","e","m","e","s"," ","i","n"," ">>

\* analysis.py lines 139-141
NotesTerms ==
  <<"."," ","K","e","y"," ","r","e","c","u","r","r","i","n","g"," ","t","e",
    "r","m","s"," ","i","n","c","l","u","d","e"," ">>

\* analysis.py line 143
NotesDiverse ==
  <<" ","i","t","e","m","s"," ","s","h","o","w","s"," ","d","i","v","e","r",
    "s","e"," ","c","o","n","t","e","n","t"," ","w","i","t","h","o","u","t",
    " ","c","l","e","a","r"," ","d","o","m","i","n","a","n","t"," ","t","h",
    "e","m","e","s",".">>

\* the characters of a theme name of theme_patterns
ThemeText(theme) ==
  CASE theme = "Technology & Innovation" ->
         <<"T","e","c","h","n","o","l","o","g","y"," ","&"," ","I","n","n",
           "o","v","a","t","i","o","n">>
    [] theme = "Finance & Investment" ->
         <<"F","i","n","a","n","c","e"," ","&"," ","I","n","v","e","s","t",
           "m","e","n","t">>
    [] theme = "Healthcare & Medical" ->
         <<"H","e","a","l","t","h","c","a","r","e"," ","&"," ","M","e","d",
           "i","c","a","l">>
    [] theme = "Business & Industry" ->
         <<"B","u","s","i","n","e","s","s"," ","&"," ","I","n","d","u","s",
           "t","r","y">>
    [] theme = "Research & Analysis" ->
         <<"R","e","s","e","a","r","c","h"," ","&"," ","A","n","a","l","y",
           "s","i","s">>
    [] theme = "Market Trends" ->
         <<"M","a","r","k","e","t"," ","T","r","e","n","d","s">>

\* analysis.py line 26
InvalidInputText ==
  <<"I","n","v","a","l","i","d"," ","i","n","p","u","t","s"," ","p","r","o",
    "v","i","d","e","d","."," ","E","x","p","e","c","t","e","d"," ","d","i",
    "c","t","i","o","n","a","r","y"," ","w","i","t","h"," ","c","o","n","t",
    "e","n","t"," ","d","a","t","a",".">>

\* analysis.py line 86
NoContentText ==
  <<"N","o"," ","v","a","l","i","d"," ","c","o","n","t","e","n","t"," ","f",
    "o","u","n","d"," ","i","n"," ","i","n","p","u","t","s","."," ","E","x",
    "p","e","c","t","e","d"," ","'","n","e","w","s","'",","," ","'","r","e",
    "s","e","a","r","c","h","'",","," ","a","n","d"," ","'","s","o","c","i",
    "a","l","'"," ","k","e","y","s"," ","w","i","t","h"," ","c","o","n","t",
    "e","n","t"," ","a","r","r","a","y","s",","," ","o","r"," ","a"," ","c",
    "o","m","p","r","e","h","e","n","s","i","v","e"," ","a","n","a","l","y",
    "s","i","s"," ","r","e","s","u","l","t",".">>

(***************************************************************************)
(* The analysis result as generate_summary receives it: the mapping of     *)
(* analysis.py lines 24-27, 84-87 and 145-150, with its texts as           *)
(* characters and its notes formatted as lines 139-143 format them.        *)
(***************************************************************************)
RenderNotes(notes) ==
  IF notes.topics # <<>>
  THEN NotesPrefix \o IntText(notes.total_items) \o NotesThemes
         \o Join(CommaSpace, [i \in DOMAIN notes.topics |-> ThemeText(notes.topics[i])])
         \o NotesTerms \o Join(CommaSpace, notes.keywords) \o Period
  ELSE NotesPrefix \o IntText(notes.total_items) \o NotesDiverse

MessageText(msg) == IF msg = InvalidInputMsg THEN InvalidInputText ELSE NoContentText

ResultValue(res) ==
  IF res.status = "error"
  THEN AnalysisResults(StrV(ErrorText), StrV(MessageText(res.error_message)),
                       Absent, Absent, Absent, FALSE)
  ELSE AnalysisResults(StrV(SuccessText), Absent,
                       ListV([i \in DOMAIN res.keywords |-> StrV(res.keywords[i])]),
                       ListV([i \in DOMAIN res.topics |-> StrV(ThemeText(res.topics[i]))]),
                       StrV(RenderNotes(res.summary_notes)), FALSE)

(***************************************************************************)
(* The caller: argument values and the steps that build them.              *)
(***************************************************************************)
MaxItems == 2
MaxAppend == 3

TextA == <<"t","e","c","h">>
\* 'fintech innovation digital payments fintech'
TextExample ==
  <<"f","i","n","t","e","c","h"," ","i","n","n","o","v","a","t","i","o","n"," ",
    "d","i","g","i","t","a","l"," ","p","a","y","m","e","n","t","s"," ",
    "f","i","n","t","e","c","h">>
TextB == <<"h","e","a","l","t","h">>

\* records of a news, social, articles or posts list
ContentPool ==
  { IntV(7),
    Record(Absent, StrV(TextB)),
    Record(IntV(5), Absent),
    Record(StrV(<<>>), Absent),
    Record(StrV(TextA), Absent),
    Record(StrV(TextB), Absent) }

\* records of a research list
ResearchPool ==
  { IntV(7),
    Record(Absent, Absent),
    Record(Absent, StrV(<<>>)),
    Record(Absent, StrV(TextB)),
    Record(Absent, IntV(5)),
    Record(StrV(<<>>), Absent),
    Record(StrV(<<>>), StrV(TextB)),
    Record(StrV(TextA), StrV(TextB)),
    Record(IntV(5), Absent) }

Pool(cat) == IF cat = "research" THEN ResearchPool ELSE ContentPool

\* nested results a comprehensive form starts with
NestedSuccess == Nested("success", ListV(<<>>))
NestedError == Nested("error", ListV(<<>>))

\* argument values a caller starts from: values that are no mapping, the
\* empty mapping, a mapping with unrelated keys only, and mappings that carry
\* one or both keys of the comprehensive form
SeedInputs ==
  { NoneV, IntV(5), StrV(TextA), ListV(<<>>), ListV(<<IntV(7)>>),
    Mapping(Absent, Absent, Absent, Absent, Absent, FALSE),
    Mapping(Absent, Absent, Absent, Absent, Absent, TRUE),
    Mapping(ListV(<<>>), ListV(<<>>), Absent, Absent, Absent, FALSE),
    Mapping(ListV(<<Record(StrV(TextExample), Absent)>>), Absent, Absent, Absent, Absent,
            FALSE) }
    \cup { Mapping(Absent, Absent, Absent, p[1], p[2], TRUE) :
             p \in { <<NestedSuccess, NestedSuccess>>, <<NestedSuccess, NestedError>>,
                     <<NestedError, NestedSuccess>>, <<NestedError, NestedError>>,
                     <<NoneV, NestedSuccess>>, <<NestedSuccess, NoneV>>,
                     <<Nested("success", NoneV), NestedSuccess>>,
                     <<NestedSuccess, Absent>>, <<Absent, NestedSuccess>> } }

\* a finished call: the function, the argument it was given and the value it
\* returned
Call(fn, arg, out) == [fn |-> fn, arg |-> arg, out |-> out]

Idle(v) ==
  /\ inputs = v
  /\ pc = "build"
  /\ appended = 0
  /\ all_text = <<>>
  /\ total_items = 0
  /\ words = <<>>
  /\ filtered_words = <<>>
  /\ result = Absent
  /\ analysis_results = Absent
  /\ summary_parts = <<>>
  /\ summary = Absent
  /\ history = <<>>
  /\ domain = Absent
  /\ collected = Absent

Init == \E v \in SeedInputs : Idle(v)

\* the number of build steps the argument has taken
Built(v) ==
  LET n(x) == IF x.t = "list" THEN Len(x.l) ELSE IF x.t = "absent" THEN 0 ELSE 1
      m(x) == IF x.t = "dict" THEN n(x.d.records) ELSE 0
  IN n(v.d.news) + n(v.d.research) + n(v.d.social)
       + m(v.d.news_analysis) + m(v.d.social_media_analysis)

Unchanged ==
  UNCHANGED <<pc, appended, all_text, total_items, words, filtered_words, result,
              analysis_results, summary_parts, summary, history, domain, collected>>

\* the caller appends a record to a category list
AddRecord(cat, it) ==
  /\ pc = "build"
  /\ inputs.t = "dict"
  /\ inputs.d[cat].t \in {"absent", "list"}
  /\ Built(inputs) < MaxItems
  /\ inputs' = [inputs EXCEPT !.d[cat] = ListV(Append(Get(@, ListV(<<>>)).l, it))]
  /\ Unchanged

\* the caller gives a category a value that is no list
SetNotList(cat) ==
  /\ pc = "build"
  /\ inputs.t = "dict"
  /\ inputs.d[cat].t = "absent"
  /\ Built(inputs) < MaxItems
  /\ inputs' = [inputs EXCEPT !.d[cat] = NoneV]
  /\ Unchanged

\* the caller appends a record to the articles or posts of a nested result
AddNestedRecord(key, it) ==
  /\ pc = "build"
  /\ inputs.t = "dict"
  /\ inputs.d[key].t = "dict"
  /\ inputs.d[key].d.records.t \in {"absent", "list"}
  /\ Built(inputs) < MaxItems
  /\ inputs' = [inputs EXCEPT !.d[key].d.records = ListV(Append(Get(@, ListV(<<>>)).l, it))]
  /\ Unchanged

\* the call of analyze_collected_results(inputs)
Analyze ==
  /\ pc = "build"
  /\ inputs # Absent
  /\ \E out \in {analyze_collected_results(inputs)} :
        /\ result' = out.result
        /\ all_text' = out.all_text
        /\ total_items' = out.total_items
        /\ words' = out.words
        /\ filtered_words' = out.filtered_words
        /\ history' = Append(history, Call("analyze_collected_results", inputs, out.result))
  /\ pc' = "done"
  /\ UNCHANGED <<inputs, appended, analysis_results, summary_parts, summary, domain, collected>>

\* the coordinator hands the value analyze_collected_results returned to
\* generate_summary
SummarizeResult ==
  /\ pc = "done"
  /\ "status" \in DOMAIN result
  /\ analysis_results' = ResultValue(result)
  /\ \E out \in {generate_summary(ResultValue(result))} :
        /\ summary' = out.result
        /\ summary_parts' = out.summary_parts
        /\ history' = Append(history, Call("generate_summary", ResultValue(result), out.result))
  /\ pc' = "summarized"
  /\ UNCHANGED <<inputs, appended, all_text, total_items, words, filtered_words, result,
                 domain, collected>>

Next ==
  \/ \E cat \in Range(Categories) : \E it \in Pool(cat) : AddRecord(cat, it)
  \/ \E cat \in Range(Categories) : SetNotList(cat)
  \/ \E key \in {"news_analysis", "social_media_analysis"} :
       \E it \in ContentPool : AddNestedRecord(key, it)
  \/ Analyze
  \/ SummarizeResult

Spec == Init /\ [][Next]_vars

(***************************************************************************)
(* The caller of the text specification: it starts from a mapping whose    *)
(* records hold a text and extends the text of the last news record piece  *)
(* by piece before the call.                                               *)
(***************************************************************************)
Pieces ==
  { <<"3">>,
    <<" ">>,
    <<"-">>,
    <<"_">>,
    <<"é">>,
    <<"t","h","e">>,
    <<"t","e","c","h">>,
    <<"h","e","a","l","t","h">>,
    <<"p","a","y","m","e","n","t","s">> }

\* "Web3 AI-driven"
TextWeb == <<"W","e","b","3"," ","A","I","-","d","r","i","v","e","n">>
\* twelve distinct words, each once, with a trailing space
TextTwelve ==
  <<"f","i","n","t","e","c","h"," ","i","n","n","o","v","a","t","i","o",
    "n"," ","d","i","g","i","t","a","l"," ","p","a","y","m","e","n","t",
    "s"," ","c","r","y","p","t","o"," ","m","a","r","k","e","t"," ","d",
    "a","t","a"," ","t","r","e","n","d"," ","s","t","u","d","y"," ","t",
    "e","c","h"," ","h","e","a","l","t","h"," ","d","e","m","a","n","d",
    " ">>
TextFour == <<"f","i","n","t","e","c","h"," ","i","n","n","o","v","a","t","i","o",
              "n"," ","d","i","g","i","t","a","l"," ","p","a","y","m","e","n","t",
              "s"," ">>
TextEight == <<"c","r","y","p","t","o"," ","m","a","r","k","e","t"," ","d","a","t",
               "a"," ","t","r","e","n","d">>
TextLast == <<"s","t","u","d","y"," ","t","e","c","h"," ","h","e","a","l","t","h",
              " ","d","e","m","a","n","d">>

\* stopwords and words of one and two letters only
TextStopwords == <<"i","t"," ","i","s"," ","t","h","e"," ","A","I"," ","o","f"," ","x">>

OneNews(text) ==
  Mapping(ListV(<<Record(StrV(text), Absent)>>), Absent, Absent, Absent, Absent, FALSE)

TextSeeds ==
  { OneNews(<<>>), OneNews(TextWeb), OneNews(TextTwelve), OneNews(TextStopwords),
    Mapping(ListV(<<Record(StrV(TextFour), Absent)>>),
            ListV(<<Record(Absent, StrV(TextEight))>>),
            ListV(<<Record(StrV(TextLast), Absent)>>),
            Absent, Absent, FALSE) }

InitText == \E v \in TextSeeds : Idle(v)

\* the caller extends the text of the last news record
AppendPiece(p) ==
  /\ pc = "build"
  /\ appended < MaxAppend
  /\ inputs.t = "dict" /\ inputs.d.news.t = "list" /\ inputs.d.news.l # <<>>
  /\ LET k == Len(inputs.d.news.l)
         c == inputs.d.news.l[k].d.content
     IN /\ c.t = "str"
        /\ inputs' = [inputs EXCEPT !.d.news.l[k].d.content = StrV(c.s \o p)]
  /\ appended' = appended + 1
  /\ UNCHANGED <<pc, all_text, total_items, words, filtered_words, result,
                 analysis_results, summary_parts, summary, history, domain, collected>>

NextText ==
  \/ \E p \in Pieces : AppendPiece(p)
  \/ Analyze

SpecText == InitText /\ [][NextText]_vars

(***************************************************************************)
(* A caller of generate_summary: the argument values it starts from and    *)
(* the keywords and topics it appends before the call.                     *)
(***************************************************************************)
MaxAdded == 3

\* keywords that no trigger pattern names
NeutralKeywords ==
  << StrV(<<"c","r","y","p","t","o">>),
     StrV(<<"m","a","r","k","e","t">>),
     StrV(<<"d","a","t","a">>),
     StrV(<<"t","r","e","n","d">>),
     StrV(<<"s","t","u","d","y">>) >>

\* the example of summarization.py lines 139-144
ExampleKeywords ==
  << StrV(<<"f","i","n","t","e","c","h">>),
     StrV(<<"b","l","o","c","k","c","h","a","i","n">>),
     StrV(<<"p","a","y","m","e","n","t","s">>),
     StrV(<<"i","n","n","o","v","a","t","i","o","n">>),
     StrV(<<"d","i","g","i","t","a","l">>) >>

ExampleTopics ==
  << StrV(<<"F","i","n","a","n","c","e"," ","&"," ","I","n","v","e","s","t",
            "m","e","n","t">>),
     StrV(<<"T","e","c","h","n","o","l","o","g","y"," ","&"," ","I","n","n",
            "o","v","a","t","i","o","n">>) >>

ExampleNotes ==
  <<"A","n","a","l","y","s","i","s"," ","r","e","v","e","a","l","s"," ","s",
    "t","r","o","n","g"," ","f","o","c","u","s"," ","o","n"," ","f","i","n",
    "a","n","c","i","a","l"," ","t","e","c","h","n","o","l","o","g","y"," ",
    "i","n","n","o","v","a","t","i","o","n",".">>

\* values a caller appends to keywords: strings in either case
KeywordPool ==
  << StrV(<<"F","i","n","T","e","c","h">>),
     StrV(<<"t","e","c","h">>),
     StrV(<<"H","e","a","l","t","h","c","a","r","e">>),
     StrV(<<"c","r","y","p","t","o">>) >>

\* values a caller appends to topics: theme names and another name
TopicPool ==
  << StrV(<<"T","e","c","h","n","o","l","o","g","y"," ","&"," ","I","n","n",
            "o","v","a","t","i","o","n">>),
     StrV(<<"F","i","n","a","n","c","e"," ","&"," ","I","n","v","e","s","t",
            "m","e","n","t">>),
     StrV(<<"H","e","a","l","t","h","c","a","r","e"," ","&"," ","M","e","d",
            "i","c","a","l">>),
     StrV(<<"R","e","s","e","a","r","c","h"," ","&"," ","A","n","a","l","y",
            "s","i","s">>),
     StrV(<<"P","r","i","c","i","n","g">>) >>

\* the six themes, last declared first
ThemesReversed ==
  << StrV(<<"M","a","r","k","e","t"," ","T","r","e","n","d","s">>),
     StrV(<<"R","e","s","e","a","r","c","h"," ","&"," ","A","n","a","l","y",
            "s","i","s">>),
     StrV(<<"B","u","s","i","n","e","s","s"," ","&"," ","I","n","d","u","s",
            "t","r","y">>),
     StrV(<<"H","e","a","l","t","h","c","a","r","e"," ","&"," ","M","e","d",
            "i","c","a","l">>),
     StrV(<<"F","i","n","a","n","c","e"," ","&"," ","I","n","v","e","s","t",
            "m","e","n","t">>),
     StrV(<<"T","e","c","h","n","o","l","o","g","y"," ","&"," ","I","n","n",
            "o","v","a","t","i","o","n">>) >>

NotesText == <<"T","w","o"," ","i","t","e","m","s",".">>

\* an element that is no string
NotAString == IntV(5)

SucceededWith(kw, tp, sn) == AnalysisResults(StrV(SuccessText), Absent, kw, tp, sn, FALSE)
FailedWith(em) == AnalysisResults(StrV(ErrorText), em, Absent, Absent, Absent, FALSE)

\* values that are no mapping, the empty mapping, a mapping with unrelated
\* keys only, failed analyses with and without a message, and successful
\* analyses
SummarySeeds ==
  { NoneV, ListV(<<>>), StrV(TextA),
    AnalysisResults(Absent, Absent, Absent, Absent, Absent, FALSE),
    AnalysisResults(Absent, Absent, Absent, Absent, Absent, TRUE),
    FailedWith(Absent), FailedWith(StrV(<<>>)), FailedWith(StrV(NoContentText)),
    AnalysisResults(StrV(ErrorText), StrV(InvalidInputText), ListV(NeutralKeywords),
                    ListV(ExampleTopics), StrV(NotesText), FALSE),
    AnalysisResults(NoneV, Absent, ListV(ExampleKeywords), Absent, Absent, FALSE),
    SucceededWith(Absent, Absent, Absent),
    SucceededWith(ListV(<<>>), ListV(<<>>), StrV(NotesText)),
    SucceededWith(ListV(Prefix(NeutralKeywords, 2)), Absent, Absent),
    SucceededWith(ListV(NeutralKeywords), ListV(<<>>), StrV(NotesText)),
    SucceededWith(Absent, ListV(ThemesReversed), StrV(<<>>)),
    SucceededWith(ListV(ExampleKeywords), ListV(ExampleTopics), StrV(ExampleNotes)),
    SucceededWith(NoneV, ListV(<<>>), Absent),
    SucceededWith(ListV(<<>>), NoneV, StrV(NotesText)) }

IdleSummary(v) ==
  /\ inputs = Absent
  /\ pc = "build"
  /\ appended = 0
  /\ all_text = <<>>
  /\ total_items = 0
  /\ words = <<>>
  /\ filtered_words = <<>>
  /\ result = Absent
  /\ analysis_results = v
  /\ summary_parts = <<>>
  /\ summary = Absent
  /\ history = <<>>
  /\ domain = Absent
  /\ collected = Absent

\* the caller has an analysis result at hand, or an argument of
\* analyze_collected_results whose result it will hand on
InitSummary == (\E v \in SummarySeeds : IdleSummary(v)) \/ Init \/ InitText

\* the caller appends a value to the keywords or to the topics
AddTo(key, x) ==
  /\ pc = "build"
  /\ analysis_results.t = "dict"
  /\ analysis_results.d[key].t \in {"absent", "list"}
  /\ appended < MaxAdded
  /\ analysis_results' =
       [analysis_results EXCEPT !.d[key] = ListV(Append(Get(@, ListV(<<>>)).l, x))]
  /\ appended' = appended + 1
  /\ UNCHANGED <<inputs, pc, all_text, total_items, words, filtered_words, result,
                 summary_parts, summary, history, domain, collected>>

AddKeyword(k) == AddTo("keywords", k)
AddTopic(t) == AddTo("topics", t)

\* the call of generate_summary(analysis_results)
Summarize ==
  /\ pc = "build"
  /\ analysis_results # Absent
  /\ \E out \in {generate_summary(analysis_results)} :
        /\ summary' = out.result
        /\ summary_parts' = out.summary_parts
        /\ history' = Append(history, Call("generate_summary", analysis_results, out.result))
  /\ pc' = "summarized"
  /\ UNCHANGED <<inputs, appended, all_text, total_items, words, filtered_words, result,
                 analysis_results, domain, collected>>

NextSummary ==
  \/ \E k \in Range(KeywordPool) \cup {NotAString} : AddKeyword(k)
  \/ \E t \in Range(TopicPool) \cup {NotAString} : AddTopic(t)
  \/ Summarize
  \/ Analyze
  \/ SummarizeResult

SpecSummary == InitSummary /\ [][NextSummary]_vars


(***************************************************************************)
(* A process that serves one call after the other: the coordinator's tools *)
(* are plain functions, called as often as a conversation asks.  Whatever  *)
(* the previous call left in the variables is still there when the next    *)
(* call starts.                                                            *)
(***************************************************************************)
MaxCalls == 3

CallArguments ==
  { NoneV,
    Mapping(Absent, Absent, Absent, Absent, Absent, FALSE),
    OneNews(TextWeb),
    OneNews(TextFour) }

SummaryArguments ==
  { FailedWith(Absent),
    SucceededWith(ListV(<<>>), ListV(<<>>), StrV(NotesText)),
    SucceededWith(ListV(ExampleKeywords), ListV(ExampleTopics), StrV(ExampleNotes)) }

InitCalls ==
  \/ \E v \in CallArguments : Idle(v)
  \/ \E w \in SummaryArguments : IdleSummary(w)

\* the caller prepares the argument of another call
NextArgument(v, w) ==
  /\ pc \in {"done", "summarized"}
  /\ Len(history) < MaxCalls
  /\ inputs' = v
  /\ analysis_results' = w
  /\ pc' = "build"
  /\ UNCHANGED <<appended, all_text, total_items, words, filtered_words, result,
                 summary_parts, summary, history, domain, collected>>

NextCalls ==
  \/ \E v \in CallArguments : NextArgument(v, Absent)
  \/ \E w \in SummaryArguments : NextArgument(Absent, w)
  \/ Analyze
  \/ Summarize
  \/ SummarizeResult

SpecCalls == InitCalls /\ [][NextCalls]_vars

(***************************************************************************)
(* The collection tools of the coordinator, agent.py lines 146-290, and    *)
(* the two scrapers, social_scraper.py and xcom_scraper.py.                *)
(***************************************************************************)
\* agent.py lines 159, 195 and 270
DomainRequiredText ==
  <<"D","o","m","a","i","n"," ","k","e","y","w","o","r","d"," ","r","e","q",
    "u","i","r","e","d",".">>
\* agent.py line 231
DomainRequiredForAnalysisText ==
  <<"D","o","m","a","i","n"," ","k","e","y","w","o","r","d"," ","r","e","q",
    "u","i","r","e","d"," ","f","o","r"," ","a","n","a","l","y","s","i","s",
    ".">>

\* the one character U+1F680 of agent.py line 203, written by its code point;
\* it is neither a letter nor a word character
Rocket == "U+1F680"

\* agent.py lines 163-174: the f-strings around {domain}
mock_articles ==
  << [source |-> "NewsAPI",
      before |-> <<"S","a","m","p","l","e"," ","h","e","a","d","l","i","n",
                  "e"," ","a","b","o","u","t"," ">>,
      after |-> <<" ","#","1">>],
     [source |-> "NewsAPI",
      before |-> <<"S","a","m","p","l","e"," ","h","e","a","d","l","i","n",
                  "e"," ","a","b","o","u","t"," ">>,
      after |-> <<" ","#","2">>],
     [source |-> "NewsAPI",
      before |-> <<"B","r","e","a","k","i","n","g",":"," ","M","a","j","o",
                  "r"," ">>,
      after |-> <<" ","c","o","m","p","a","n","y"," ","a","n","n","o","u",
                 "n","c","e","s"," ","b","r","e","a","k","t","h","r","o",
                 "u","g","h"," ","i","n","n","o","v","a","t","i","o","n">>],
     [source |-> "NewsAPI",
      before |-> <<"I","n","d","u","s","t","r","y"," ","e","x","p","e","r",
                  "t","s"," ","p","r","e","d","i","c","t"," ","s","i","g",
                  "n","i","f","i","c","a","n","t"," ","g","r","o","w","t",
                  "h"," ","i","n"," ">>,
      after |-> <<" ","s","e","c","t","o","r">>],
     [source |-> "NewsAPI",
      before |-> <<"N","e","w"," ","r","e","g","u","l","a","t","i","o","n",
                  "s"," ","c","o","u","l","d"," ","i","m","p","a","c","t",
                  " ">>,
      after |-> <<" ","m","a","r","k","e","t"," ","d","y","n","a","m","i",
                 "c","s">>],
     [source |-> "NewsAPI",
      before |-> <<"G","l","o","b","a","l"," ">>,
      after |-> <<" ","m","a","r","k","e","t"," ","r","e","a","c","h","e",
                 "s"," ","r","e","c","o","r","d"," ","h","i","g","h"," ",
                 "t","h","i","s"," ","q","u","a","r","t","e","r">>],
     [source |-> "NewsAPI",
      before |-> <<"S","t","a","r","t","u","p"," ","d","i","s","r","u","p",
                  "t","s"," ","t","r","a","d","i","t","i","o","n","a","l",
                  " ">>,
      after |-> <<" ","i","n","d","u","s","t","r","y"," ","w","i","t","h",
                 " ","A","I"," ","t","e","c","h","n","o","l","o","g","y">>],
     [source |-> "NewsAPI",
      before |-> <<"I","n","v","e","s","t","m","e","n","t"," ","s","u","r",
                  "g","e"," ","i","n"," ">>,
      after |-> <<" ","c","o","m","p","a","n","i","e","s"," ","s","i","g",
                 "n","a","l","s"," ","m","a","r","k","e","t"," ","c","o",
                 "n","f","i","d","e","n","c","e">>],
     [source |-> "NewsAPI",
      before |-> <<"R","e","s","e","a","r","c","h"," ","r","e","v","e","a",
                  "l","s"," ","c","o","n","s","u","m","e","r"," ","t","r",
                  "e","n","d","s"," ","s","h","i","f","t","i","n","g"," ",
                  "t","o","w","a","r","d"," ">>,
      after |-> <<" ","s","o","l","u","t","i","o","n","s">>],
     [source |-> "NewsAPI",
      before |-> <<"I","n","t","e","r","n","a","t","i","o","n","a","l"," ",
                  "s","u","m","m","i","t"," ","a","d","d","r","e","s","s",
                  "e","s"," ","f","u","t","u","r","e"," ","o","f"," ">>,
      after |-> <<" ","i","n","n","o","v","a","t","i","o","n">>] >>

\* agent.py lines 199-210
mock_posts ==
  << [source |-> "X.com",
      before |-> <<"L","a","t","e","s","t"," ","t","r","e","n","d","i","n",
                  "g"," ","p","o","s","t"," ","a","b","o","u","t"," ">>,
      after |-> <<" ","#","1">>],
     [source |-> "X.com",
      before |-> <<"L","a","t","e","s","t"," ","t","r","e","n","d","i","n",
                  "g"," ","p","o","s","t"," ","a","b","o","u","t"," ">>,
      after |-> <<" ","#","2">>],
     [source |-> "X.com",
      before |-> <<"B","r","e","a","k","i","n","g"," ","n","e","w","s"," ",
                  "i","n"," ">>,
      after |-> <<" ","i","n","d","u","s","t","r","y"," ","t","o","d","a",
                 "y","!"," ","#","i","n","n","o","v","a","t","i","o","n">>],
     [source |-> "X.com",
      before |-> <<"N","e","w"," ","d","e","v","e","l","o","p","m","e","n",
                  "t","s"," ","i","n"," ">>,
      after |-> <<" ","a","r","e"," ","c","h","a","n","g","i","n","g"," ",
                 "t","h","e"," ","g","a","m","e">>],
     [source |-> "X.com",
      before |-> <<"J","u","s","t"," ","d","i","s","c","o","v","e","r","e",
                  "d"," ","a","n"," ","a","m","a","z","i","n","g"," ">>,
      after |-> <<" ","s","t","a","r","t","u","p"," ",Rocket>>],
     [source |-> "X.com",
      before |-> <<"T","h","r","e","a","d",":"," ","W","h","y"," ">>,
      after |-> <<" ","i","s"," ","t","h","e"," ","f","u","t","u","r","e",
                 " ","o","f"," ","t","e","c","h","n","o","l","o","g","y",
                 " ","(","1","/","5",")">>],
     [source |-> "X.com",
      before |-> <<"M","a","r","k","e","t"," ","a","n","a","l","y","s","i",
                  "s"," ","s","h","o","w","s"," ">>,
      after |-> <<" ","g","r","o","w","i","n","g"," ","2","0","0","%"," ",
                 "t","h","i","s"," ","y","e","a","r">>],
     [source |-> "X.com",
      before |-> <<"I","n","v","e","s","t","o","r","s"," ","a","r","e"," ",
                  "b","u","l","l","i","s","h"," ","o","n"," ">>,
      after |-> <<" ","c","o","m","p","a","n","i","e","s"," ","#","i","n",
                 "v","e","s","t","i","n","g">>],
     [source |-> "X.com",
      before |-> <<"C","o","n","f","e","r","e","n","c","e"," ","h","i","g",
                  "h","l","i","g","h","t","s",":"," ","T","h","e"," ","s",
                  "t","a","t","e"," ","o","f"," ">>,
      after |-> <<" ","i","n"," ","2","0","2","5">>],
     [source |-> "X.com",
      before |-> <<"H","o","t"," ","t","a","k","e",":"," ">>,
      after |-> <<" ","w","i","l","l"," ","d","o","m","i","n","a","t","e",
                 " ","t","h","e"," ","n","e","x","t"," ","d","e","c","a",
                 "d","e"," ","#","p","r","e","d","i","c","t","i","o","n">>] >>

\* agent.py lines 274-285
mock_papers ==
  << [source |-> "arXiv",
      before |-> <<"S","a","m","p","l","e"," ","r","e","s","e","a","r","c",
                  "h"," ","p","a","p","e","r"," ","a","b","o","u","t"," ">>,
      after |-> <<" ","#","1">>],
     [source |-> "SSRN",
      before |-> <<"S","a","m","p","l","e"," ","r","e","s","e","a","r","c",
                  "h"," ","p","a","p","e","r"," ","a","b","o","u","t"," ">>,
      after |-> <<" ","#","2">>],
     [source |-> "arXiv",
      before |-> <<"D","e","e","p"," ","L","e","a","r","n","i","n","g"," ",
                  "A","p","p","l","i","c","a","t","i","o","n","s"," ","i",
                  "n"," ">>,
      after |-> <<":"," ","A"," ","C","o","m","p","r","e","h","e","n","s",
                 "i","v","e"," ","R","e","v","i","e","w">>],
     [source |-> "SSRN",
      before |-> <<"M","a","r","k","e","t"," ","D","y","n","a","m","i","c",
                  "s"," ","a","n","d"," ","I","n","n","o","v","a","t","i",
                  "o","n"," ","P","a","t","t","e","r","n","s"," ","i","n",
                  " ","t","h","e"," ">>,
      after |-> <<" ","I","n","d","u","s","t","r","y">>],
     [source |-> "arXiv",
      before |-> <<"M","a","c","h","i","n","e"," ","L","e","a","r","n","i",
                  "n","g"," ","M","e","t","h","o","d","s"," ","f","o","r",
                  " ">>,
      after |-> <<" ","O","p","t","i","m","i","z","a","t","i","o","n"," ",
                 "a","n","d"," ","A","n","a","l","y","s","i","s">>],
     [source |-> "SSRN",
      before |-> <<"E","c","o","n","o","m","i","c"," ","I","m","p","a","c",
                  "t"," ","o","f"," ">>,
      after |-> <<" ","T","e","c","h","n","o","l","o","g","i","e","s"," ",
                 "o","n"," ","G","l","o","b","a","l"," ","M","a","r","k",
                 "e","t","s">>],
     [source |-> "arXiv",
      before |-> <<"A","l","g","o","r","i","t","h","m","i","c"," ","A","p",
                  "p","r","o","a","c","h","e","s"," ","t","o"," ">>,
      after |-> <<" ","P","r","o","b","l","e","m"," ","S","o","l","v","i",
                 "n","g">>],
     [source |-> "SSRN",
      before |-> <<"I","n","v","e","s","t","m","e","n","t"," ","T","r","e",
                  "n","d","s"," ","a","n","d"," ","R","i","s","k"," ","A",
                  "s","s","e","s","s","m","e","n","t"," ","i","n"," ">>,
      after |-> <<" ","S","e","c","t","o","r">>],
     [source |-> "arXiv",
      before |-> <<"S","t","a","t","i","s","t","i","c","a","l"," ","M","o",
                  "d","e","l","s"," ","f","o","r"," ">>,
      after |-> <<" ","D","a","t","a"," ","P","r","o","c","e","s","s","i",
                 "n","g"," ","a","n","d"," ","P","r","e","d","i","c","t",
                 "i","o","n">>],
     [source |-> "SSRN",
      before |-> <<"R","e","g","u","l","a","t","o","r","y"," ","F","r","a",
                  "m","e","w","o","r","k"," ","a","n","d"," ","P","o","l",
                  "i","c","y"," ","I","m","p","l","i","c","a","t","i","o",
                  "n","s"," ","f","o","r"," ">>,
      after |-> <<" ","D","e","v","e","l","o","p","m","e","n","t">>] >>

\* social_scraper.py: the records run() returns in place of posts
reddit_failures ==
  << [line |-> 46, hole |-> "none",
      before |-> <<"E","r","r","o","r",":"," ","R","e","d","d","i","t"," ",
                  "c","l","i","e","n","t"," ","n","o","t"," ","i","n","i",
                  "t","i","a","l","i","z","e","d","."," ","P","l","e","a",
                  "s","e"," ","c","h","e","c","k"," ","y","o","u","r"," ",
                  "A","P","I"," ","c","r","e","d","e","n","t","i","a","l",
                  "s",".">>,
      after |-> <<>>],
     [line |-> 66, hole |-> "domain",
      before |-> <<"N","o"," ","p","o","s","t","s"," ","f","o","u","n","d",
                  " ","f","o","r"," ","d","o","m","a","i","n"," ">>,
      after |-> <<>>],
     [line |-> 71, hole |-> "error",
      before |-> <<"R","e","d","d","i","t"," ","A","P","I"," ","E","r","r",
                  "o","r",":"," ">>,
      after |-> <<>>],
     [line |-> 73, hole |-> "error",
      before |-> <<"P","R","A","W"," ","E","r","r","o","r",":"," ">>,
      after |-> <<>>],
     [line |-> 75, hole |-> "error",
      before |-> <<"U","n","e","x","p","e","c","t","e","d"," ","e","r","r",
                  "o","r",":"," ">>,
      after |-> <<>>] >>

\* xcom_scraper.py: the records run() returns in place of tweets
xcom_failures ==
  << [line |-> 46, hole |-> "none",
      before |-> <<"E","r","r","o","r",":"," ","T","w","i","t","t","e","r",
                  " ","B","e","a","r","e","r"," ","T","o","k","e","n"," ",
                  "n","o","t"," ","c","o","n","f","i","g","u","r","e","d",
                  "."," ","P","l","e","a","s","e"," ","s","e","t"," ","T",
                  "W","I","T","T","E","R","_","B","E","A","R","E","R","_",
                  "T","O","K","E","N"," ","e","n","v","i","r","o","n","m",
                  "e","n","t"," ","v","a","r","i","a","b","l","e"," ","i",
                  "n"," ","y","o","u","r"," ",".","e","n","v"," ","f","i",
                  "l","e",".">>,
      after |-> <<>>],
     [line |-> 82, hole |-> "domain",
      before |-> <<"N","o"," ","p","o","s","t","s"," ","f","o","u","n","d",
                  " ","f","o","r"," ","d","o","m","a","i","n"," ">>,
      after |-> <<>>],
     [line |-> 88, hole |-> "none",
      before |-> <<"E","r","r","o","r",":"," ","U","n","a","u","t","h","o",
                  "r","i","z","e","d"," ","-"," ","I","n","v","a","l","i",
                  "d"," ","B","e","a","r","e","r"," ","T","o","k","e","n",
                  " ","o","r"," ","i","n","s","u","f","f","i","c","i","e",
                  "n","t"," ","p","e","r","m","i","s","s","i","o","n","s">>,
      after |-> <<>>],
     [line |-> 94, hole |-> "none",
      before |-> <<"E","r","r","o","r",":"," ","R","a","t","e"," ","l","i",
                  "m","i","t"," ","e","x","c","e","e","d","e","d"," ","-",
                  " ","P","l","e","a","s","e"," ","t","r","y"," ","a","g",
                  "a","i","n"," ","l","a","t","e","r">>,
      after |-> <<>>],
     [line |-> 100, hole |-> "domain",
      before |-> <<"E","r","r","o","r",":"," ","B","a","d"," ","r","e","q",
                  "u","e","s","t"," ","-"," ","I","n","v","a","l","i","d",
                  " ","q","u","e","r","y"," ","p","a","r","a","m","e","t",
                  "e","r","s"," ","f","o","r"," ","d","o","m","a","i","n",
                  " ","'">>,
      after |-> <<"'">>],
     [line |-> 106, hole |-> "none",
      before |-> <<"E","r","r","o","r",":"," ","F","o","r","b","i","d","d",
                  "e","n"," ","-"," ","A","c","c","e","s","s"," ","d","e",
                  "n","i","e","d"," ","t","o"," ","T","w","i","t","t","e",
                  "r"," ","A","P","I">>,
      after |-> <<>>],
     [line |-> 112, hole |-> "code",
      before |-> <<"E","r","r","o","r",":"," ","T","w","i","t","t","e","r",
                  " ","A","P","I"," ","r","e","t","u","r","n","e","d"," ",
                  "s","t","a","t","u","s"," ","c","o","d","e"," ">>,
      after |-> <<>>],
     [line |-> 118, hole |-> "none",
      before |-> <<"E","r","r","o","r",":"," ","R","e","q","u","e","s","t",
                  " ","t","i","m","e","o","u","t"," ","-"," ","T","w","i",
                  "t","t","e","r"," ","A","P","I"," ","d","i","d"," ","n",
                  "o","t"," ","r","e","s","p","o","n","d"," ","i","n"," ",
                  "t","i","m","e">>,
      after |-> <<>>],
     [line |-> 124, hole |-> "none",
      before |-> <<"E","r","r","o","r",":"," ","C","o","n","n","e","c","t",
                  "i","o","n"," ","e","r","r","o","r"," ","-"," ","U","n",
                  "a","b","l","e"," ","t","o"," ","c","o","n","n","e","c",
                  "t"," ","t","o"," ","T","w","i","t","t","e","r"," ","A",
                  "P","I">>,
      after |-> <<>>],
     [line |-> 130, hole |-> "error",
      before |-> <<"E","r","r","o","r",":"," ","R","e","q","u","e","s","t",
                  " ","f","a","i","l","e","d"," ","-"," ">>,
      after |-> <<>>],
     [line |-> 136, hole |-> "error",
      before |-> <<"E","r","r","o","r",":"," ","I","n","v","a","l","i","d",
                  " ","J","S","O","N"," ","r","e","s","p","o","n","s","e",
                  " ","-"," ">>,
      after |-> <<>>],
     [line |-> 142, hole |-> "error",
      before |-> <<"U","n","e","x","p","e","c","t","e","d"," ","e","r","r",
                  "o","r",":"," ">>,
      after |-> <<>>] >>

\* xcom_scraper.py lines 20 and 29-31: the token is a literal of the source,
\* not empty and not the placeholder
bearer_token_valid == TRUE

\* the characters str.strip() removes, among those a domain is built from
Whitespace == {" ", "\t", "\n", "\r", "\f"}

\* a test of the empty string alone
BlankEmptyOnly(d) == d = <<>>

\* `not domain or domain.strip() == ""` on a string
Blank(d) == \A i \in DOMAIN d : d[i] \in Whitespace

ToolError(msg) == [status |-> "error", error_message |-> msg]
ToolSuccess(recs) == [status |-> "success", records |-> recs]

\* the records of a mock list: every f-string with the domain in its place
MockContents(templates, d) ==
  [i \in DOMAIN templates |->
     [source |-> templates[i].source,
      content |-> templates[i].before \o d \o templates[i].after]]
MockTitles(templates, d) ==
  [i \in DOMAIN templates |->
     [source |-> templates[i].source,
      title |-> templates[i].before \o d \o templates[i].after]]

\* agent.py lines 146-179
search_news_articles(d) ==
  IF Blank(d) THEN ToolError(DomainRequiredText)
  ELSE ToolSuccess(MockContents(mock_articles, d))

\* agent.py lines 182-215
search_x_com_posts(d) ==
  IF Blank(d) THEN ToolError(DomainRequiredText)
  ELSE ToolSuccess(MockContents(mock_posts, d))

\* agent.py lines 257-290
search_research_papers(d) ==
  IF Blank(d) THEN ToolError(DomainRequiredText)
  ELSE ToolSuccess(MockTitles(mock_papers, d))

\* lines 247-248: len(result.get(key, [])) if status is success else 0
TotalOf(r) == IF r.status = "success" THEN Len(r.records) ELSE 0

\* line 249
sources_analyzed == <<"NewsAPI", "X.com">>

\* agent.py lines 218-254; now is what datetime.now().isoformat() gives
get_comprehensive_analysis(d, now) ==
  IF Blank(d) THEN ToolError(DomainRequiredForAnalysisText)
  ELSE LET news_result == search_news_articles(d)
           x_com_result == search_x_com_posts(d)
       IN [status |-> "success",
           domain |-> d,
           timestamp |-> now,
           news_analysis |-> news_result,
           social_media_analysis |-> x_com_result,
           summary |-> [total_news_articles |-> TotalOf(news_result),
                        total_social_posts |-> TotalOf(x_com_result),
                        sources_analyzed |-> sources_analyzed]]

\* the text of one in-band failure: the literal, or the f-string with the
\* domain, str(e) or the status code in its place
FailureContent(f, d, e, code) ==
  f.before \o (CASE f.hole = "domain" -> d
                 [] f.hole = "error" -> e
                 [] f.hole = "code" -> IntText(code)
                 [] OTHER -> <<>>) \o f.after

\* the list run() returns with one record
OneRecord(source, content) == <<[source |-> source, content |-> content]>>

\* social_scraper.py lines 59-62 and xcom_scraper.py lines 71-77: one record
\* for each submission title or tweet text
PostRecords(source, texts) ==
  [i \in DOMAIN texts |-> [source |-> source, content |-> texts[i]]]

\* one record of a tool as analyze_collected_results reads it
AsRecord(rec) ==
  IF "content" \in DOMAIN rec THEN Record(StrV(rec.content), Absent)
  ELSE Record(Absent, StrV(rec.title))
AsList(recs) == ListV([i \in DOMAIN recs |-> AsRecord(recs[i])])

\* a per-source result under a nested key: 'articles' or 'posts' is there
\* only when the search succeeded
AsNested(r) ==
  IF r.status = "success" THEN Nested("success", AsList(r.records))
  ELSE Nested("error", Absent)

\* what analyze_collected_results is given: the result of
\* get_comprehensive_analysis as it is (analysis.py line 60), the list of a
\* search or of a scraper under the key of its category (lines 34, 42, 52)
AsInputs(c) ==
  CASE c.tool = "get_comprehensive_analysis" ->
         IF c.out.status = "success"
         THEN Mapping(Absent, Absent, Absent, AsNested(c.out.news_analysis),
                      AsNested(c.out.social_media_analysis), TRUE)
         ELSE Mapping(Absent, Absent, Absent, Absent, Absent, TRUE)
    [] c.tool = "search_news_articles" ->
         Mapping(AsList(c.out.records), Absent, Absent, Absent, Absent, FALSE)
    [] c.tool = "search_research_papers" ->
         Mapping(Absent, AsList(c.out.records), Absent, Absent, Absent, FALSE)
    [] c.tool = "search_x_com_posts" ->
         Mapping(Absent, Absent, AsList(c.out.records), Absent, Absent, FALSE)
    [] OTHER ->
         Mapping(Absent, Absent, AsList(c.out), Absent, Absent, FALSE)

(***************************************************************************)
(* The caller of the collection tools: it spells a domain, calls one tool  *)
(* with it, and hands what the tool returned to analyze_collected_results. *)
(***************************************************************************)
MaxDomain == 2

\* the pieces a domain is spelled from
DomainPieces == {<<" ">>, <<"\t">>, <<"A", "I">>, <<"t", "e", "c", "h">>}

\* two instants of the clock
Timestamps == {<<"2","0","2","5","-","0","1","-","0","1","T","0","9",":","0","0",":","0","0">>,
               <<"2","0","2","5","-","0","1","-","0","1","T","0","9",":","0","0",":","0","1">>}

\* what str(e) can be for an exception of a client library
ErrorTexts == {<<>>, <<"r","e","c","e","i","v","e","d"," ","4","0","3">>}

\* status codes the else branch of xcom_scraper.py line 109 receives
OtherStatusCodes == {404, 500}

\* titles and tweets a search can find
FoundTexts == {<<TextA>>, <<TextA, TextB>>}

\* the failures run() can report: the one of line 46 only without a token
ReachableFailures(failures, guarded) ==
  {i \in DOMAIN failures : guarded \/ failures[i].line # 46}

\* SocialMediaScraperAgent.run, social_scraper.py lines 35-75: what it
\* returns depends on the client and on what the service answers
RedditOutcomes(d) ==
  {OneRecord("Reddit", FailureContent(reddit_failures[i], d, e, 0)) :
     i \in ReachableFailures(reddit_failures, TRUE), e \in ErrorTexts}
  \cup {PostRecords("Reddit", texts) : texts \in FoundTexts}

\* XComScraperAgent.run, xcom_scraper.py lines 33-143
XComOutcomes(d) ==
  {OneRecord("X.com", FailureContent(xcom_failures[i], d, e, code)) :
     i \in ReachableFailures(xcom_failures, ~bearer_token_valid),
     e \in ErrorTexts, code \in OtherStatusCodes}
  \cup {PostRecords("X.com", texts) : texts \in FoundTexts}

InitCollect ==
  /\ inputs = Absent
  /\ pc = "collect"
  /\ appended = 0
  /\ all_text = <<>>
  /\ total_items = 0
  /\ words = <<>>
  /\ filtered_words = <<>>
  /\ result = Absent
  /\ analysis_results = Absent
  /\ summary_parts = <<>>
  /\ summary = Absent
  /\ history = <<>>
  /\ domain = StrV(<<>>)
  /\ collected = Absent

\* the caller spells the domain
AppendDomain(p) ==
  /\ pc = "collect"
  /\ appended < MaxDomain
  /\ domain' = StrV(domain.s \o p)
  /\ appended' = appended + 1
  /\ UNCHANGED <<inputs, pc, all_text, total_items, words, filtered_words,
                 result, analysis_results, summary_parts, summary, history,
                 collected>>

\* a tool has returned out
Collected(tool, out) ==
  /\ pc = "collect"
  /\ collected' = [tool |-> tool, out |-> out]
  /\ pc' = "collected"
  /\ UNCHANGED <<inputs, appended, all_text, total_items, words,
                 filtered_words, result, analysis_results, summary_parts,
                 summary, history, domain>>

SearchNews == Collected("search_news_articles", search_news_articles(domain.s))
SearchPosts == Collected("search_x_com_posts", search_x_com_posts(domain.s))
SearchPapers == Collected("search_research_papers", search_research_papers(domain.s))
Comprehensive ==
  \E now \in Timestamps :
    Collected("get_comprehensive_analysis", get_comprehensive_analysis(domain.s, now))
RunReddit ==
  \E out \in RedditOutcomes(domain.s) : Collected("SocialMediaScraperAgent.run", out)
RunXCom ==
  \E out \in XComOutcomes(domain.s) : Collected("XComScraperAgent.run", out)

\* a scraper returns a list; a tool a result with a status
IsList(c) == c.tool \in {"SocialMediaScraperAgent.run", "XComScraperAgent.run"}

\* the caller passes on what it collected; a search that failed returned
\* no list to pass on
HandOver ==
  /\ pc = "collected"
  /\ IF IsList(collected) \/ collected.tool = "get_comprehensive_analysis"
     THEN TRUE
     ELSE collected.out.status = "success"
  /\ inputs' = AsInputs(collected)
  /\ pc' = "build"
  /\ UNCHANGED <<appended, all_text, total_items, words, filtered_words,
                 result, analysis_results, summary_parts, summary, history,
                 domain, collected>>

NextCollect ==
  \/ \E p \in DomainPieces : AppendDomain(p)
  \/ SearchNews
  \/ SearchPosts
  \/ SearchPapers
  \/ Comprehensive
  \/ RunReddit
  \/ RunXCom
  \/ HandOver
  \/ Analyze
  \/ SummarizeResult

SpecCollect == InitCollect /\ [][NextCollect]_vars

(***************************************************************************)
(* Properties of the source normalisation and of the error results.        *)
(***************************************************************************)
Done == pc = "done"
Returned == Done /\ "status" \in DOMAIN result
Success == Returned /\ result.status = "success"

\* every category is missing or an empty list
C1_NoCategoryContent ==
  \A cat \in Range(Categories) :
    inputs.d[cat].t = "absent" \/ (inputs.d[cat].t = "list" /\ inputs.d[cat].l = <<>>)

\* the comprehensive form is present: both nested keys
BothNestedKeys ==
  inputs.d.news_analysis.t # "absent" /\ inputs.d.social_media_analysis.t # "absent"

\* its own negation of "has a key"
C1_HasSomeKey ==
  \/ \E k \in {"news", "research", "social", "news_analysis", "social_media_analysis"} :
       inputs.d[k].t # "absent"
  \/ inputs.d.other

C1_IsNoContent ==
  /\ DOMAIN result = {"status", "error_message"}
  /\ result.status = "error"
  /\ result.error_message = "No valid content found in inputs. Expected 'news', 'research', and 'social' keys with content arrays, or a comprehensive analysis result."

\* C1 as stated: every mapping, the empty mapping included, whose categories
\* are all missing or empty and that carries no comprehensive form gets the
\* NoContent error.
C1_Original ==
  (Done /\ inputs.t = "dict" /\ C1_NoCategoryContent /\ ~BothNestedKeys)
    => C1_IsNoContent

\* C1 as amended: every mapping with at least one key whose categories are
\* all missing or empty and that carries no comprehensive form gets the
\* NoContent error; the empty mapping gets the InvalidInput error.
C1_NoContent ==
  (Done /\ inputs.t = "dict" /\ C1_NoCategoryContent /\ ~BothNestedKeys)
    => IF C1_HasSomeKey THEN C1_IsNoContent
       ELSE /\ result.status = "error"
            /\ result.error_message = "Invalid inputs provided. Expected dictionary with content data."

C1_Witness ==
  /\ Done /\ inputs.t = "dict" /\ ~BothNestedKeys
  /\ inputs.d.news.t = "list" /\ inputs.d.news.l = <<>>
  /\ inputs.d.social.t = "absent"
  /\ C1_IsNoContent

\* C3: whatever the shape of the argument, the call returns a value with a
\* 'status' field and raises nothing.
C3_NeverRaises == Done => "status" \in DOMAIN result

\* C8: every accepted text item is a non-empty string.
C8_AcceptedNonEmpty ==
  Done => \A i \in DOMAIN all_text : all_text[i].t = "str" /\ all_text[i].s # <<>>

\* the per-category form: a mapping with a key, without the comprehensive form
C9_PerCategory == inputs.t = "dict" /\ C1_HasSomeKey /\ ~BothNestedKeys

C9_Exposes(it, key) == it.t = "dict" /\ it.d[key].t # "absent"

\* the texts C9 as stated expects: a research record counts when it exposes
\* 'content' or 'title', and gives its content when it exposes one
C9_StatedTexts ==
  LET acc(cat, it) == IF cat = "research"
                      THEN C9_Exposes(it, "content") \/ C9_Exposes(it, "title")
                      ELSE C9_Exposes(it, "content")
      txt(it) == IF C9_Exposes(it, "content") THEN it.d.content ELSE it.d.title
      of(cat) == IF inputs.d[cat].t = "list"
                 THEN LET a == SelectSeq(inputs.d[cat].l, LAMBDA it : acc(cat, it))
                      IN [i \in 1..Len(a) |-> txt(a[i])]
                 ELSE <<>>
  IN of("news") \o of("research") \o of("social")

\* the texts C9 as amended expects: a research record counts when its
\* 'content' is truthy or, failing that, its 'title' is truthy
C9_AmendedTexts ==
  LET acc(cat, it) == IF cat = "research"
                      THEN it.t = "dict" /\ (Truthy(it.d.content) \/ Truthy(it.d.title))
                      ELSE C9_Exposes(it, "content")
      txt(cat, it) == IF cat = "research" /\ ~Truthy(it.d.content)
                      THEN it.d.title ELSE it.d.content
      of(cat) == IF inputs.d[cat].t = "list"
                 THEN LET a == SelectSeq(inputs.d[cat].l, LAMBDA it : acc(cat, it))
                      IN [i \in 1..Len(a) |-> txt(cat, a[i])]
                 ELSE <<>>
  IN of("news") \o of("research") \o of("social")

C9_CountReported ==
  /\ total_items = Len(all_text)
  /\ (Returned /\ result.status = "success")
       => result.summary_notes.total_items = Len(all_text)

\* C9 as stated: in the per-category form the accepted texts are the content
\* of each news and social record exposing 'content' and of each research
\* record exposing 'content' or, failing that, 'title', in input order, news
\* then research then social, and the reported item count is their number.
C9_Original ==
  (Done /\ C9_PerCategory) => (all_text = C9_StatedTexts /\ C9_CountReported)

\* C9 as amended: the same, with a research record accepted exactly when its
\* 'content' is truthy or, failing that, its 'title' is truthy, its text being
\* the truthy content, else the title.
C9_Accepted ==
  (Done /\ C9_PerCategory) => (all_text = C9_AmendedTexts /\ C9_CountReported)

C9_Witness ==
  /\ Done /\ C9_PerCategory
  /\ Returned /\ result.status = "success"
  /\ inputs.d.research.t = "list"
  /\ \E i \in DOMAIN inputs.d.research.l :
       /\ C9_Exposes(inputs.d.research.l[i], "content")
       /\ ~Truthy(inputs.d.research.l[i].d.content)
  /\ Len(all_text) >= 1
  /\ Len(all_text) < Len(C9_StatedTexts)

C10_IsResult(na) == na.t = "dict" /\ na.d.records.t \in {"absent", "list"}

C10_Contents(na) ==
  IF na.d.status = "success" /\ na.d.records.t = "list"
  THEN LET a == SelectSeq(na.d.records.l, LAMBDA it : C9_Exposes(it, "content"))
       IN [i \in 1..Len(a) |-> a[i].d.content]
  ELSE <<>>

C10_Comprehensive ==
  /\ inputs.t = "dict" /\ BothNestedKeys
  /\ C9_AmendedTexts = <<>>
  /\ C10_IsResult(inputs.d.news_analysis)
  /\ C10_IsResult(inputs.d.social_media_analysis)

\* C10: for an input in comprehensive form (both nested results present, no
\* category text accepted) the accepted texts are the contents of the
\* articles of a 'success' news_analysis followed by the contents of the
\* posts of a 'success' social_media_analysis, each judged on its own status;
\* a nested result of another status contributes no text and no count.
C10_Unwrap ==
  (Done /\ C10_Comprehensive)
    => /\ all_text = C10_Contents(inputs.d.news_analysis)
                       \o C10_Contents(inputs.d.social_media_analysis)
       /\ total_items = Len(all_text)

C10_Witness ==
  /\ Done /\ C10_Comprehensive
  /\ inputs.d.news_analysis.d.status = "success"
  /\ inputs.d.social_media_analysis.d.status # "success"
  /\ inputs.d.social_media_analysis.d.records.t = "list"
  /\ \E i \in DOMAIN inputs.d.social_media_analysis.d.records.l :
       C9_Exposes(inputs.d.social_media_analysis.d.records.l[i], "content")
  /\ Len(all_text) = 1
  /\ Returned /\ result.status = "success"

(***************************************************************************)
(* Properties of tokenisation, ranking and topic classification, stated    *)
(* over the text specification.                                            *)
(***************************************************************************)
\* the lowercased, space-joined text of the accepted items
C2_Text == CombinedText([i \in DOMAIN all_text |-> all_text[i].s])

\* the first index of every maximal run of ASCII letters
C2_RunStarts(text) ==
  {i \in DOMAIN text : IsLetter(text[i]) /\ (i = 1 \/ ~IsLetter(text[i - 1]))}

\* the last index of the maximal run starting at i
C2_RunStop(text, i) ==
  CHOOSE j \in i..Len(text) :
    /\ \A k \in i..j : IsLetter(text[k])
    /\ j = Len(text) \/ ~IsLetter(text[j + 1])

\* the runs that touch no other word character (digit, underscore, letter
\* outside ASCII) on either side
C2_FreeStarts(text) ==
  {i \in C2_RunStarts(text) :
     /\ i = 1 \/ ~IsWordChar(text[i - 1])
     /\ LET j == C2_RunStop(text, i) IN j = Len(text) \/ ~IsWordChar(text[j + 1])}

\* ws lists the runs starting at `starts`, left to right
C2_Lists(text, starts, ws) ==
  /\ Len(ws) = Cardinality(starts)
  /\ \A i \in starts :
       ws[Cardinality({k \in starts : k <= i})] = SubSeq(text, i, C2_RunStop(text, i))

C2_Web == <<"w","e","b">>
C2_Driven == <<"d","r","i","v","e","n">>

C4_Count(w) == Cardinality({i \in DOMAIN filtered_words : filtered_words[i] = w})
C4_First(w) ==
  CHOOSE i \in DOMAIN filtered_words :
    filtered_words[i] = w /\ \A j \in 1..(i - 1) : filtered_words[j] # w

\* a ranks before b: a higher count, or the same count and an earlier first
\* occurrence in the concatenated text
C4_Before(a, b) ==
  \/ C4_Count(a) > C4_Count(b)
  \/ C4_Count(a) = C4_Count(b) /\ C4_First(a) < C4_First(b)

\* C4: the keywords are the (at most) 10 distinct filtered tokens of highest
\* count, by descending count, equal counts in order of first occurrence in
\* the concatenated text, also at the cut-off after the 10th.
C4_Ranking ==
  Success =>
    LET kw == result.keywords
        all == Range(filtered_words)
    IN /\ Len(kw) = (IF Cardinality(all) < 10 THEN Cardinality(all) ELSE 10)
       /\ Range(kw) \subseteq all
       /\ \A i, j \in DOMAIN kw : i < j => C4_Before(kw[i], kw[j])
       /\ \A w \in all \ Range(kw) : \A i \in DOMAIN kw : C4_Before(kw[i], w)

\* more than 10 distinct tokens, a tie across the cut-off, and a token that
\* ranks ahead of one seen earlier
C4_Witness ==
  /\ Success
  /\ Cardinality(Range(filtered_words)) > 10
  /\ \E w \in Range(filtered_words) \ Range(result.keywords) :
       C4_Count(w) = C4_Count(result.keywords[10])
  /\ \E i, j \in DOMAIN result.keywords :
       i < j /\ C4_First(result.keywords[i]) > C4_First(result.keywords[j])
  /\ \E i \in DOMAIN all_text : i > 1

C5_Noise ==
  { <<"s","a","m","p","l","e">>,
    <<"a","b","o","u","t">>,
    <<"l","a","t","e","s","t">>,
    <<"n","e","w">>,
    <<"t","o","d","a","y">>,
    <<"n","e","w","s">> }

\* C5: every keyword is a lowercase alphabetic token longer than 2 that is
\* no stopword; no keyword appears twice; there are at most 10.
C5_Keywords ==
  Success =>
    LET kw == result.keywords
    IN /\ Len(kw) <= 10
       /\ \A i, j \in DOMAIN kw : i # j => kw[i] # kw[j]
       /\ \A i \in DOMAIN kw :
            /\ Len(kw[i]) > 2
            /\ \A k \in DOMAIN kw[i] : kw[i][k] \in Range(AsciiLower)
            /\ kw[i] \notin stopwords \cup C5_Noise

C5_Witness ==
  /\ Success
  /\ result.keywords # <<>>
  /\ \E i \in DOMAIN words : words[i] \in stopwords
  /\ \E i \in DOMAIN words : Len(words[i]) <= 2
  /\ \E i \in DOMAIN all_text : \E k \in DOMAIN all_text[i].s :
       all_text[i].s[k] \in Range(AsciiUpper)

C6_Payments == <<"p","a","y","m","e","n","t","s">>

\* C6: a theme is among the topics exactly when one of its keywords equals a
\* filtered token (any filtered token, not only a top-10 keyword; "payments"
\* does not match "payment"); without any match the call still succeeds,
\* with no topics.
C6_Topics ==
  Done =>
    /\ Success
    /\ \A n \in DOMAIN theme_patterns :
         (theme_patterns[n].theme \in Range(result.topics))
           <=> (Range(theme_patterns[n].keywords) \cap Range(filtered_words) # {})
    /\ filtered_words = <<C6_Payments>> => result.topics = <<>>

C6_Witness ==
  /\ Success
  /\ \E n \in DOMAIN theme_patterns :
       /\ theme_patterns[n].theme \in Range(result.topics)
       /\ Range(theme_patterns[n].keywords) \cap Range(result.keywords) = {}
  /\ \E n \in DOMAIN theme_patterns : theme_patterns[n].theme \notin Range(result.topics)

C6_WitnessNoMatch == Success /\ filtered_words = <<C6_Payments>>

C7_Order ==
  << "Technology & Innovation", "Finance & Investment", "Healthcare & Medical",
     "Business & Industry", "Research & Analysis", "Market Trends" >>

C7_Pos(th) == CHOOSE n \in DOMAIN C7_Order : C7_Order[n] = th

C7_Hits(th) ==
  LET p == CHOOSE q \in Range(theme_patterns) : q.theme = th
  IN Cardinality({i \in DOMAIN filtered_words : filtered_words[i] \in Range(p.keywords)})

\* C7: the topics are a subsequence of the declaration order, no theme twice,
\* whatever the number of keyword hits of each theme.
C7_DeclarationOrder ==
  Success =>
    /\ Range(result.topics) \subseteq Range(C7_Order)
    /\ \A i, j \in DOMAIN result.topics :
         i < j => C7_Pos(result.topics[i]) < C7_Pos(result.topics[j])

\* a later topic has more hits than an earlier one
C7_Witness ==
  /\ Success
  /\ \E i, j \in DOMAIN result.topics :
       i < j /\ C7_Hits(result.topics[i]) < C7_Hits(result.topics[j])

(***************************************************************************)
(* Properties of generate_summary.                                         *)
(***************************************************************************)
Summarized == pc = "summarized"
FailedAnalysis ==
  /\ Summarized
  /\ analysis_results.t = "dict"
  /\ analysis_results.d.status # StrV(SuccessText)

\* the message of the failed analysis, or the default when it has none
C11_UpstreamText ==
  IF analysis_results.d.error_message.t = "absent" THEN UnknownErrorText
  ELSE analysis_results.d.error_message.s

C11_IsUpstreamFailure ==
  /\ summary = [status |-> "error", error_message |-> FailurePrefix \o C11_UpstreamText]
  /\ summary_parts = <<>>

\* the messages of analyze_collected_results, as texts
C11_AnalyzeText ==
  IF result.error_message = InvalidInputMsg THEN InvalidInputText ELSE NoContentText

\* C11 as stated: every mapping whose status is not 'success' gets the error
\* that embeds the upstream message.  Violated by the empty mapping, which
\* gets 'Invalid analysis results provided. ...'.
C11_Original == FailedAnalysis => C11_IsUpstreamFailure

\* C11 (amended): generate_summary called with a non-empty mapping whose
\* status is anything other than 'success' returns status 'error' with the
\* message 'Analysis results indicate failure: ' followed by the upstream
\* error_message unchanged, or by 'Unknown error in analysis' when there is
\* none, and builds no summary; when the argument is an error result of
\* analyze_collected_results the embedded text is that result's message.
C11_Upstream ==
  (FailedAnalysis /\ ~FalsyResults(analysis_results)) =>
     /\ C11_IsUpstreamFailure
     /\ ("status" \in DOMAIN result /\ result.status = "error") =>
           summary.error_message = FailurePrefix \o C11_AnalyzeText

\* an error of analyze_collected_results handed on, and a failed analysis
\* without a message
C11_Witness ==
  /\ FailedAnalysis
  /\ "status" \in DOMAIN result /\ result.status = "error"
  /\ result.error_message = NoContentMsg
  /\ summary.error_message = FailurePrefix \o NoContentText

C11_WitnessNoMessage ==
  /\ FailedAnalysis
  /\ ~FalsyResults(analysis_results)
  /\ analysis_results.d.error_message.t = "absent"
  /\ summary.error_message = FailurePrefix \o UnknownErrorText

SucceededAnalysis ==
  /\ Summarized
  /\ analysis_results.t = "dict"
  /\ analysis_results.d.status = StrV(SuccessText)

SummarySuccess ==
  /\ SucceededAnalysis
  /\ "status" \in DOMAIN summary
  /\ summary.status = "success"

\* the keywords and the topics of the argument; an absent key is an empty list
ArgKeywords == Get(analysis_results.d.keywords, ListV(<<>>))
ArgTopics == Get(analysis_results.d.topics, ListV(<<>>))
ArgNotes == Get(analysis_results.d.summary_notes, StrV(<<>>))
ArgKeywordList == IF ArgKeywords.t = "list" THEN ArgKeywords.l ELSE <<>>
ArgTopicList == IF ArgTopics.t = "list" THEN ArgTopics.l ELSE <<>>

C12_IsNoSignal == summary = [status |-> "error", error_message |-> NoSignalText]
C12_BothEmpty == ~Truthy(ArgKeywords) /\ ~Truthy(ArgTopics)

\* C12: for an argument with status 'success', generate_summary returns the
\* error 'No meaningful keywords or topics found in analysis results.' if
\* and only if keywords and topics are both empty or absent, and returns
\* status 'success' with a summary when either is non-empty.
C12_NoSignal ==
  SucceededAnalysis =>
    /\ C12_IsNoSignal <=> C12_BothEmpty
    /\ ~C12_BothEmpty => /\ DOMAIN summary = {"status", "summary"}
                         /\ summary.status = "success"

\* the same for keywords and topics that are lists of strings
C12_ListsOfStrings ==
  /\ ArgKeywords.t = "list" /\ AllStr(ArgKeywords.l)
  /\ ArgTopics.t = "list" /\ AllStr(ArgTopics.l)

C12_NoSignalOnStrings ==
  (SucceededAnalysis /\ C12_ListsOfStrings) =>
    /\ C12_IsNoSignal <=> C12_BothEmpty
    /\ ~C12_BothEmpty => /\ DOMAIN summary = {"status", "summary"}
                         /\ summary.status = "success"

C12_WitnessOnStrings ==
  /\ SummarySuccess
  /\ C12_ListsOfStrings
  /\ ArgKeywords.l = <<>>
  /\ ArgTopics.l # <<>>

\* the clauses of summary_parts that begin with a given text
HasPrefix(s, p) == Len(s) >= Len(p) /\ SubSeq(s, 1, Len(p)) = p
ClausesWith(p) == SelectSeq(summary_parts, LAMBDA c : HasPrefix(c, p))

\* the first five keywords in lower case, and the topics
C13_Low == {LowerText(ArgKeywordList[i].s) :
              i \in {j \in DOMAIN ArgKeywordList : j <= 5 /\ ArgKeywordList[j].t = "str"}}
C13_HasTopic(name) == \E i \in DOMAIN ArgTopicList : ArgTopicList[i] = StrV(name)

C13_Fintech == FintechKeyword \in C13_Low \/ C13_HasTopic(FinanceTopic)
C13_TechKeyword == C13_Low \cap Range(TechWords) # {}
C13_Tech == C13_TechKeyword \/ C13_HasTopic(ThemeText("Technology & Innovation"))
C13_Healthcare == HealthcareKeyword \in C13_Low \/ C13_HasTopic(HealthcareTopic)

C13_Clause(fintech, tech, healthcare) ==
  LET texts == (IF fintech THEN <<FintechImplication>> ELSE <<>>)
                 \o (IF tech THEN <<TechImplication>> ELSE <<>>)
                 \o (IF healthcare THEN <<HealthcareImplication>> ELSE <<>>)
  IN IF texts = <<>> THEN <<>>
     ELSE <<StrategicPrefix \o Join(CommaSpace, texts) \o Period>>

\* C13: the strategic implications of a summary are those of the three
\* patterns fintech, technology, healthcare that are triggered, each once and
\* in that order, where a pattern is triggered by a matching keyword among
\* the first five (compared in lower case) or by its topic 'Finance &
\* Investment', 'Technology & Innovation', 'Healthcare & Medical'.
C13_Patterns ==
  SummarySuccess =>
    ClausesWith(StrategicPrefix) = C13_Clause(C13_Fintech, C13_Tech, C13_Healthcare)

\* what the code does: the technology pattern is triggered by a keyword only
C13_TechByKeywordOnly ==
  SummarySuccess =>
    ClausesWith(StrategicPrefix) = C13_Clause(C13_Fintech, C13_TechKeyword, C13_Healthcare)

C13_WitnessAllThree ==
  /\ SummarySuccess
  /\ C13_Fintech /\ C13_TechKeyword /\ C13_Healthcare
  /\ Len(ArgKeywordList) > 5

C13_WitnessTopicOnly ==
  /\ SummarySuccess
  /\ C13_HasTopic(ThemeText("Technology & Innovation"))
  /\ ~C13_TechKeyword /\ ~C13_Fintech /\ ~C13_Healthcare
  /\ ClausesWith(StrategicPrefix) = <<>>

\* the group of a clause, told by how the clause begins
C14_Heading ==
  <<"E","x","e","c","u","t","i","v","e"," ","S","u","m","m","a","r","y",":">>
C14_Assessment ==
  <<"O","v","e","r","a","l","l"," ","a","s","s","e","s","s","m","e","n","t",":"," ">>
C14_Group(c) ==
  CASE HasPrefix(c, C14_Heading) -> 1
    [] HasPrefix(c, FindingsThreePrefix) \/ HasPrefix(c, FindingsFewPrefix) -> 2
    [] HasPrefix(c, InsightsPrefix) -> 3
    [] HasPrefix(c, StrategicPrefix) -> 4
    [] HasPrefix(c, C14_Assessment) \/ c = ClosingGeneric -> 5
    [] HasPrefix(c, RecommendationPrefix) -> 6
    [] OTHER -> 0

\* the clauses one after the other with one space between two of them
C14_Spaced ==
  LET f[i \in 0..Len(summary_parts)] ==
        IF i = 0 THEN <<>>
        ELSE IF i = 1 THEN summary_parts[1]
        ELSE f[i - 1] \o <<" ">> \o summary_parts[i]
  IN f[Len(summary_parts)]

\* C14: a successful summary is its clauses in the order opening, findings,
\* topic insights, strategic implications, assessment or closing,
\* recommendation, joined by single spaces; no group occurs twice, the
\* opening and the assessment or closing occur once, the summary starts with
\* 'Executive Summary:', and non-empty notes follow 'Overall assessment: '
\* unchanged.
C14_ClauseOrder ==
  SummarySuccess =>
    /\ \A i \in DOMAIN summary_parts : C14_Group(summary_parts[i]) # 0
    /\ \A i, j \in DOMAIN summary_parts :
         i < j => C14_Group(summary_parts[i]) < C14_Group(summary_parts[j])
    /\ summary_parts # <<>> /\ C14_Group(summary_parts[1]) = 1
    /\ \E i \in DOMAIN summary_parts :
         /\ C14_Group(summary_parts[i]) = 5
         /\ summary_parts[i] = IF Truthy(ArgNotes) THEN C14_Assessment \o ArgNotes.s
                                ELSE ClosingGeneric
    /\ summary.summary = C14_Spaced
    /\ HasPrefix(summary.summary, C14_Heading)

\* all six groups in one summary, with notes
C14_Witness ==
  /\ SummarySuccess
  /\ Len(summary_parts) = 6
  /\ Truthy(ArgNotes)

C14_WitnessClosing ==
  /\ SummarySuccess
  /\ Len(summary_parts) = 2
  /\ ~Truthy(ArgNotes)

\* the insight texts of the themes of theme_patterns that are in topics, in
\* the order theme_patterns declares the themes
C15_Insights ==
  LET present == SelectSeq(theme_patterns,
                           LAMBDA p : \E i \in DOMAIN ArgTopicList :
                                         ArgTopicList[i] = StrV(ThemeText(p.theme)))
  IN [i \in DOMAIN present |->
        (CHOOSE r \in Range(topic_insight_table) :
           r.theme = ThemeText(present[i].theme)).insight]

\* texts joined with ', ', and with ', and ' before the last of two or more
C15_Listed(texts) ==
  LET n == Len(texts)
      f[i \in 1..n] ==
        IF i = 1 THEN texts[1]
        ELSE IF i < n THEN f[i - 1] \o <<",", " ">> \o texts[i]
        ELSE f[i - 1] \o <<",", " ", "a", "n", "d", " ">> \o texts[i]
  IN f[n]

\* C15: the topic-insight clause holds one fixed text for each of the six
\* themes that is in topics, in the order the themes are declared whatever
\* the order of topics; one text stands alone, two or more are joined with
\* ', ' and with ', and ' before the last; there is no such clause when
\* topics has none of the six themes.
C15_InsightClause ==
  SummarySuccess =>
    ClausesWith(InsightsPrefix) =
      IF C15_Insights = <<>> THEN <<>>
      ELSE <<InsightsPrefix \o C15_Listed(C15_Insights) \o <<".">> >>

\* the six themes, given last declared first
C15_Witness ==
  /\ SummarySuccess
  /\ Len(C15_Insights) = 6
  /\ ArgTopicList[1] = StrV(ThemeText("Market Trends"))

C15_WitnessOne ==
  /\ SummarySuccess
  /\ Len(C15_Insights) = 1
  /\ Len(ArgTopicList) > 1

C15_WitnessNone ==
  /\ SummarySuccess
  /\ ArgTopicList # <<>>
  /\ C15_Insights = <<>>

\* the two forms of the findings clause
C17_CenterAround ==
  <<"K","e","y"," ","f","i","n","d","i","n","g","s"," ","c","e","n","t","e","r"," ",
    "a","r","o","u","n","d"," ">>
C17_Highlight ==
  <<"K","e","y"," ","f","i","n","d","i","n","g","s"," ","h","i","g","h","l","i","g","h","t"," ">>
C17_Keyword(i) == ArgKeywordList[i].s

C17_Expected ==
  IF Len(ArgKeywordList) >= 3
  THEN <<C17_CenterAround \o C17_Keyword(1) \o <<",", " ">> \o C17_Keyword(2)
           \o <<",", " ", "a", "n", "d", " ">> \o C17_Keyword(3) \o FindingsThreeSuffix>>
  ELSE IF Len(ArgKeywordList) = 2
  THEN <<C17_Highlight \o C17_Keyword(1) \o <<",", " ">> \o C17_Keyword(2)
           \o FindingsFewSuffix>>
  ELSE IF Len(ArgKeywordList) = 1
  THEN <<C17_Highlight \o C17_Keyword(1) \o FindingsFewSuffix>>
  ELSE <<>>

\* C17: with at least 3 keywords the findings clause is 'Key findings center
\* around k1, k2, and k3, ...' over the first 3 keywords; with 1 or 2 keywords
\* it is 'Key findings highlight ...' listing all of them; no keyword beyond
\* the third is named.
C17_Findings ==
  SummarySuccess =>
    /\ ClausesWith(C17_CenterAround) \o ClausesWith(C17_Highlight) = C17_Expected
    /\ Len(SelectSeq(summary_parts, LAMBDA c : C14_Group(c) = 2)) = Len(C17_Expected)

\* more than three keywords, and two keywords
C17_Witness ==
  /\ SummarySuccess
  /\ Len(ArgKeywordList) > 3
  /\ ClausesWith(C17_CenterAround) # <<>>

C17_WitnessFew ==
  /\ SummarySuccess
  /\ Len(ArgKeywordList) = 2
  /\ ClausesWith(C17_Highlight) # <<>>

\* the topics in lower case, one after the other with ', ' between
C18_Lowered ==
  LET low(i) == [k \in DOMAIN ArgTopicList[i].s |-> Lower(ArgTopicList[i].s[k])]
      f[i \in 1..Len(ArgTopicList)] ==
        IF i = 1 THEN low(1) ELSE f[i - 1] \o <<",", " ">> \o low(i)
  IN f[Len(ArgTopicList)]

C18_Expected ==
  IF ArgTopicList = <<>>
  THEN C14_Heading \o <<" ","A","n","a","l","y","s","i","s"," ","o","f"," ","c","o","l","l",
                         "e","c","t","e","d"," ","d","a","t","a"," ","r","e","v","e","a","l",
                         "s"," ","d","i","v","e","r","s","e"," ","c","o","n","t","e","n","t",
                         " ","p","a","t","t","e","r","n","s",".">>
  ELSE IF Len(ArgTopicList) = 1
  THEN OpeningSinglePrefix \o C18_Lowered \o <<".">>
  ELSE OpeningManyPrefix \o IntText(Len(ArgTopicList)) \o OpeningManyMiddle
         \o C18_Lowered \o <<".">>

\* C18: the opening clause names the one topic in lower case when topics has
\* one element, the number of topics and all topics in lower case joined
\* with ', ' when it has two or more, and is the generic 'diverse content
\* patterns' sentence when topics is empty.
C18_Opening == SummarySuccess => summary_parts[1] = C18_Expected

\* several topics, one topic, no topic
C18_Witness ==
  /\ SummarySuccess
  /\ Len(ArgTopicList) >= 2
  /\ \E i \in DOMAIN ArgTopicList : ArgTopicList[i].s # LowerText(ArgTopicList[i].s)
  /\ HasPrefix(summary_parts[1], OpeningManyPrefix \o IntText(Len(ArgTopicList)))

C18_WitnessOne ==
  /\ SummarySuccess
  /\ Len(ArgTopicList) = 1
  /\ HasPrefix(summary_parts[1], OpeningSinglePrefix)

C18_WitnessNone ==
  /\ SummarySuccess
  /\ ArgTopicList = <<>>
  /\ summary_parts[1] = OpeningGeneric

C19_Recommendation == <<"R","e","c","o","m","m","e","n","d","a","t","i","o","n",":"," ">>

C19_Expected ==
  IF Len(ArgKeywordList) >= 3
  THEN <<RecommendationPrefix \o ArgKeywordList[1].s \o <<" ", "a", "n", "d", " ">>
           \o ArgKeywordList[2].s \o RecommendationSuffix>>
  ELSE <<>>

\* C19: the recommendation clause is present if and only if keywords has at
\* least 3 elements; it is then the last clause of the summary and names
\* the first and the second keyword and no other.
C19_RecommendationLast ==
  SummarySuccess =>
    /\ ClausesWith(C19_Recommendation) = C19_Expected
    /\ Len(ArgKeywordList) >= 3 =>
         /\ summary_parts[Len(summary_parts)] = C19_Expected[1]
         /\ \A i \in 1..(Len(summary_parts) - 1) :
              ~HasPrefix(summary_parts[i], C19_Recommendation)

\* exactly three keywords, and two keywords
C19_Witness ==
  /\ SummarySuccess
  /\ Len(ArgKeywordList) = 3
  /\ HasPrefix(summary_parts[Len(summary_parts)], C19_Recommendation)

C19_WitnessNone ==
  /\ SummarySuccess
  /\ Len(ArgKeywordList) = 2
  /\ ClausesWith(C19_Recommendation) = <<>>

\* the keys of the two kinds of result
C20_ErrorKeys == {"status", "error_message"}
C20_AnalysisKeys == {"status", "keywords", "topics", "summary_notes"}
C20_SummaryKeys == {"status", "summary"}

C20_Pure(r, keys) ==
  "status" \in DOMAIN r =>
     \/ r.status = "error" /\ DOMAIN r = C20_ErrorKeys
     \/ r.status = "success" /\ DOMAIN r = keys

\* C20: a value returned by analyze_collected_results or generate_summary is
\* an error payload (status 'error' and error_message, nothing else) or a
\* success payload (status 'success' and all result fields, no
\* error_message), never a mixture.
C20_PurePayloads ==
  /\ pc \in {"done", "summarized"} => C20_Pure(result, C20_AnalysisKeys)
  /\ Summarized => C20_Pure(summary, C20_SummaryKeys)

\* both functions succeed one after the other; the first succeeds and the
\* second returns an error
C20_Witness ==
  /\ Summarized
  /\ "status" \in DOMAIN result /\ result.status = "success"
  /\ "status" \in DOMAIN summary /\ summary.status = "success"
  /\ result.topics # <<>>

C20_WitnessError ==
  /\ Summarized
  /\ "status" \in DOMAIN result /\ result.status = "error"
  /\ "status" \in DOMAIN summary /\ summary.status = "error"

(***************************************************************************)
(* Properties of the summary notes of analyze_collected_results.           *)
(***************************************************************************)
\* the first n elements of a sequence, or all of them when there are fewer
C16_AtMost(s, n) == [i \in 1..(IF Len(s) < n THEN Len(s) ELSE n) |-> s[i]]

\* C16: the summary_notes of a successful analysis follow a fixed template.
\* With topics they name the item count, at most the first 3 topics as
\* dominant themes and at most the first 5 keywords as recurring terms;
\* without topics they are the 'diverse content' sentence, which names the
\* item count only.
C16_Notes ==
  Success =>
    IF result.topics # <<>>
    THEN result.summary_notes =
           [template |-> "Analysis of {total_items} items reveals dominant themes in {topics}. Key recurring terms include {keywords}.",
            total_items |-> Len(all_text),
            topics |-> C16_AtMost(result.topics, 3),
            keywords |-> C16_AtMost(result.keywords, 5)]
    ELSE result.summary_notes =
           [template |-> "Analysis of {total_items} items shows diverse content without clear dominant themes.",
            total_items |-> Len(all_text),
            topics |-> <<>>,
            keywords |-> <<>>]

\* more topics and more keywords than the notes name
C16_Witness ==
  /\ Success
  /\ Len(result.topics) > 3
  /\ Len(result.keywords) > 5
  /\ Len(result.summary_notes.topics) = 3
  /\ Len(result.summary_notes.keywords) = 5

C16_WitnessDiverse ==
  /\ Success
  /\ result.topics = <<>>
  /\ result.keywords # <<>>
  /\ result.summary_notes.keywords = <<>>

\* C23: analyze_collected_results returns the error 'Invalid inputs
\* provided. ...' whenever its argument is no mapping (None, a list, a
\* string, a number), and has read no category by then.
C23_NotAMapping ==
  (Done /\ inputs.t # "dict") =>
     /\ result = [status |-> "error", error_message |-> InvalidInputMsg]
     /\ all_text = <<>>
     /\ total_items = 0
     /\ words = <<>>

\* a list that is not empty, and a number
C23_Witness ==
  /\ Done
  /\ inputs = ListV(<<IntV(7)>>)
  /\ result.error_message = InvalidInputMsg

C23_WitnessNumber ==
  /\ Done
  /\ inputs.t = "int"
  /\ result.error_message = InvalidInputMsg

(***************************************************************************)
(* Properties of the two functions one after the other.                    *)
(***************************************************************************)
\* a text occurs somewhere in another
Contains(s, sub) ==
  \E i \in 1..(Len(s) - Len(sub) + 1) : SubSeq(s, i, i + Len(sub) - 1) = sub

Chained ==
  /\ Summarized
  /\ "status" \in DOMAIN result
  /\ history # <<>>
  /\ history[Len(history)].arg = ResultValue(result)

C22_Title ==
  <<"E","x","e","c","u","t","i","v","e"," ","S","u","m","m","a","r","y">>
C22_Fintech == <<"f","i","n","t","e","c","h">>
\* a theme name as the summary may spell it: as declared or in lower case
C22_Names(text, theme) ==
  \/ Contains(text, ThemeText(theme))
  \/ Contains(text, [i \in DOMAIN ThemeText(theme) |-> Lower(ThemeText(theme)[i])])

\* C22: when analyze_collected_results succeeds with at least one topic,
\* generate_summary of its result succeeds, and the summary contains
\* 'Executive Summary' and the name of at least one of the topics; for the
\* one text 'fintech innovation digital payments fintech' the first keyword
\* is 'fintech' and the topics include 'Finance & Investment' and
\* 'Technology & Innovation'.
C22_EndToEnd ==
  /\ (Chained /\ result.status = "success" /\ result.topics # <<>>) =>
       /\ DOMAIN summary = {"status", "summary"}
       /\ summary.status = "success"
       /\ Contains(summary.summary, C22_Title)
       /\ \E i \in DOMAIN result.topics : C22_Names(summary.summary, result.topics[i])
  /\ (pc \in {"done", "summarized"} /\ all_text = <<StrV(TextExample)>>) =>
       /\ "status" \in DOMAIN result /\ result.status = "success"
       /\ result.keywords[1] = C22_Fintech
       /\ \E i \in DOMAIN result.topics : result.topics[i] = "Finance & Investment"
       /\ \E i \in DOMAIN result.topics : result.topics[i] = "Technology & Innovation"

\* the example analysed and summarised
C22_Witness ==
  /\ Chained
  /\ all_text = <<StrV(TextExample)>>
  /\ summary.status = "success"
  /\ Contains(summary.summary, C22_Title)

\* a summary of one topic that the example does not have
C22_WitnessHealth ==
  /\ Chained
  /\ result.status = "success"
  /\ result.topics = <<"Healthcare & Medical">>
  /\ summary.status = "success"

C21_WitnessSummary ==
  \E i, j \in DOMAIN history :
     /\ i < j
     /\ history[i].fn = "generate_summary"
     /\ history[j] = history[i]
     /\ history[j].out.status = "success"

(***************************************************************************)
(* Properties of collection followed by analysis.                          *)
(***************************************************************************)
Collecting(tool) == "tool" \in DOMAIN collected /\ collected.tool = tool

\* the domain is empty or spelled from spaces and tabs only
C25_BlankDomain == \A i \in DOMAIN domain.s : domain.s[i] \in {" ", "\t"}

C25_Required ==
  <<"D","o","m","a","i","n"," ","k","e","y","w","o","r","d"," ",
    "r","e","q","u","i","r","e","d">>

C25_Searched ==
  \/ Collecting("search_news_articles")
  \/ Collecting("search_x_com_posts")
  \/ Collecting("search_research_papers")
  \/ Collecting("get_comprehensive_analysis")

\* C25: for a domain that is not empty and not whitespace only,
\* get_comprehensive_analysis returns status 'success' with news_analysis
\* and social_media_analysis both of status 'success' and of 10 records each
\* and with totals 10 and 10, and analyze_collected_results applied to that
\* result returns status 'success' over exactly 20 items; for an empty or
\* whitespace-only domain every collection tool returns an error whose
\* message says 'Domain keyword required'.
C25_CollectThenAnalyze ==
  /\ (Collecting("get_comprehensive_analysis") /\ ~C25_BlankDomain) =>
        /\ collected.out.status = "success"
        /\ collected.out.domain = domain.s
        /\ collected.out.news_analysis.status = "success"
        /\ Len(collected.out.news_analysis.records) = 10
        /\ collected.out.social_media_analysis.status = "success"
        /\ Len(collected.out.social_media_analysis.records) = 10
        /\ collected.out.summary.total_news_articles = 10
        /\ collected.out.summary.total_social_posts = 10
        /\ pc \in {"done", "summarized"} =>
              /\ "status" \in DOMAIN result
              /\ result.status = "success"
              /\ total_items = 20
              /\ Len(all_text) = 20
  /\ (C25_Searched /\ C25_BlankDomain) =>
        /\ collected.out.status = "error"
        /\ HasPrefix(collected.out.error_message, C25_Required)

\* the analysis of what was collected for the domain 'AI'
C25_Witness ==
  /\ Done
  /\ Collecting("get_comprehensive_analysis")
  /\ domain.s = <<"A", "I">>
  /\ result.status = "success"
  /\ total_items = 20

\* a domain of whitespace refused by get_comprehensive_analysis
C25_WitnessBlank ==
  /\ Collecting("get_comprehensive_analysis")
  /\ domain.s = <<" ", "\t">>
  /\ collected.out.status = "error"

\* a domain of whitespace refused by a search
C25_WitnessSearch ==
  /\ Collecting("search_research_papers")
  /\ domain.s = <<"\t">>
  /\ collected.out.status = "error"

(***************************************************************************)
(* Properties of the failures a social scraper reports in its records.     *)
(***************************************************************************)
C24_Scraped ==
  \/ Collecting("SocialMediaScraperAgent.run")
  \/ Collecting("XComScraperAgent.run")

\* what the failure texts of the scrapers have in them
C24_Marks ==
  { <<"E","r","r","o","r">>, <<"e","r","r","o","r">>,
    <<"N","o"," ","p","o","s","t","s"," ","f","o","u","n","d">> }

\* run() returned one record and its content reports a failure
C24_InBandFailure ==
  /\ C24_Scraped
  /\ Len(collected.out) = 1
  /\ \E mark \in C24_Marks : Contains(collected.out[1].content, mark)

C24_Content == collected.out[1].content

\* C24: when a social scraper returns a single record whose content is an
\* error text or a 'No posts found' text and that list is analysed as the
\* 'social' category, analyze_collected_results accepts the record and
\* counts it as one item, takes its words from the text of the record, ranks
\* them as keywords, and returns status 'success'.
C24_OrdinaryContent ==
  (C24_InBandFailure /\ pc \in {"done", "summarized"}) =>
     /\ "status" \in DOMAIN result
     /\ result.status = "success"
     /\ total_items = 1
     /\ all_text = <<StrV(C24_Content)>>
     /\ words # <<>>
     /\ \A i \in DOMAIN words : Contains(LowerText(C24_Content), words[i])
     /\ result.keywords # <<>>
     /\ \A k \in DOMAIN result.keywords :
          /\ result.keywords[k] \in Range(words)
          /\ result.keywords[k] \in Range(filtered_words)

\* an error text of the X.com scraper whose word 'error' is a keyword
C24_Witness ==
  /\ Done
  /\ Collecting("XComScraperAgent.run")
  /\ C24_InBandFailure
  /\ HasPrefix(C24_Content, <<"E","r","r","o","r",":">>)
  /\ result.status = "success"
  /\ <<"e","r","r","o","r">> \in Range(result.keywords)

\* a 'No posts found' text of the Reddit scraper that triggers a topic
C24_WitnessTopic ==
  /\ Done
  /\ Collecting("SocialMediaScraperAgent.run")
  /\ C24_InBandFailure
  /\ HasPrefix(C24_Content, <<"N","o"," ","p","o","s","t","s">>)
  /\ result.status = "success"
  /\ result.topics # <<>>
  /\ <<"f","o","u","n","d">> \in Range(result.keywords)

(***************************************************************************)
(* Properties of an analysis without signal.                               *)
(***************************************************************************)
C26_Returned == pc \in {"done", "summarized"} /\ "status" \in DOMAIN result
C26_Succeeded == C26_Returned /\ result.status = "success"
C26_IsNoSignal == summary = [status |-> "error", error_message |-> NoSignalText]

C26_WitnessKeywordsOnly ==
  /\ Chained
  /\ result.status = "success"
  /\ result.keywords # <<>>
  /\ result.topics = <<>>
  /\ summary.status = "success"

(***************************************************************************)
(* Properties of the comprehensive form as a fallback.                     *)
(***************************************************************************)
\* a nested result of status 'success' with a record that has a text
C27_HasContent(na) ==
  /\ C10_IsResult(na)
  /\ \E i \in DOMAIN C10_Contents(na) :
       C10_Contents(na)[i].t = "str" /\ C10_Contents(na)[i].s # <<>>

\* C27: analyze_collected_results reads 'news_analysis' and
\* 'social_media_analysis' only when the 'news', 'research' and 'social'
\* keys contributed no accepted item and both nested keys are present.  An
\* input with accepted category items is analysed from those items alone,
\* whatever comprehensive form it carries, and an input without accepted
\* category items and with only one of the two nested keys gets the
\* NoContent error, even when that nested result has status 'success' and
\* content.
C27_FallbackOnly ==
  (Done /\ inputs.t = "dict") =>
     /\ C9_AmendedTexts # <<>> =>
          /\ all_text = C9_AmendedTexts
          /\ total_items = Len(C9_AmendedTexts)
     /\ (C9_AmendedTexts = <<>> /\ C1_HasSomeKey /\ ~BothNestedKeys) =>
          /\ all_text = <<>>
          /\ C1_IsNoContent
     /\ all_text # C9_AmendedTexts => (C9_AmendedTexts = <<>> /\ BothNestedKeys)
     /\ ("raised" \in DOMAIN result /\ result.raised = "AttributeError") =>
          (C9_AmendedTexts = <<>> /\ BothNestedKeys)

\* an accepted news record together with a comprehensive form that has a text
C27_Witness ==
  /\ Success
  /\ inputs.t = "dict"
  /\ BothNestedKeys
  /\ C27_HasContent(inputs.d.news_analysis) \/ C27_HasContent(inputs.d.social_media_analysis)
  /\ Len(C9_AmendedTexts) = 1
  /\ all_text = C9_AmendedTexts
  /\ total_items = 1

\* one nested key only, of status 'success' and with a text
C27_WitnessOneKey ==
  /\ Done
  /\ inputs.t = "dict"
  /\ inputs.d.social_media_analysis.t = "absent"
  /\ C27_HasContent(inputs.d.news_analysis)
  /\ C1_IsNoContent

\* the fallback taken
C27_WitnessFallback ==
  /\ Success
  /\ inputs.t = "dict"
  /\ BothNestedKeys
  /\ C9_AmendedTexts = <<>>
  /\ all_text # <<>>

====
